---- MODULE Spec2Model ----
(***************************************************************************)
(* A state-machine model of xd-readline (src/src/xd_readline.c): the input *)
(* buffer, the screen model, the history ring, the escape-sequence decoder *)
(* and the main loop of xd_readline(), together with the caller-visible    *)
(* history API.                                                            *)
(*                                                                         *)
(* Bytes are their ASCII codes.  The C globals are the VARIABLES, under    *)
(* their source names.  A handler of the source is an operator from the    *)
(* record G of the globals it may change to the record after the call;     *)
(* an action applies one handler (with every call it makes) to the state.  *)
(***************************************************************************)
EXTENDS Integers, Sequences, FiniteSets, TLC

\* ------------------------------------------------------------------ bounds

\* LINE_MAX (2048 on the host), scaled down: the initial capacity of the input
\* buffer and of every history entry, and the unit capacities are rounded to.
LineMax == 2

\* The allocator refuses any request above this many bytes: one doubling of
\* the input buffer succeeds, the next one fails.
MaxCap == 2 * LineMax

\* history_add calls (successful or not) between two history_clear calls.
MaxAdds == 5
MaxKeys == 5

\* -------------------------------------------------------- program constants

XD_HISTORY_MAX == 4
XD_SMALL_BUFFER_SIZE == 32

XD_ASCII_NUL == 0
XD_ASCII_SOH == 1
XD_ASCII_STX == 2
XD_ASCII_EOT == 4
XD_ASCII_ENQ == 5
XD_ASCII_ACK == 6
XD_ASCII_BEL == 7
XD_ASCII_BS == 8
XD_ASCII_LF == 10
XD_ASCII_VT == 11
XD_ASCII_FF == 12
XD_ASCII_NAK == 21
XD_ASCII_ESC == 27
XD_ASCII_DEL == 127

\* The value of a byte of a fresh allocation that was never written.
Undef == -1

\* ------------------------------------------------------------ libc helpers

\* <ctype.h> in the C locale, for bytes 0..127.
isprint(c) == c >= 32 /\ c <= 126
iscntrl(c) == (c >= 0 /\ c <= 31) \/ c = 127
isalnum(c) == (c >= 48 /\ c <= 57) \/ (c >= 65 /\ c <= 90) \/ (c >= 97 /\ c <= 122)

\* C's integer division and remainder (truncation towards zero), b > 0.
CDiv(a, b) == IF a >= 0 THEN a \div b ELSE -((-a) \div b)
CMod(a, b) == a - b * CDiv(a, b)

\* The capacity the source rounds a request for n bytes up to.
RoundUpLineMax(n) == IF n % LineMax # 0 THEN n + (LineMax - (n % LineMax)) ELSE n

\* strlen() of a C string is the length of the sequence that models it.
strlen(s) == Len(s)

Min(a, b) == IF a < b THEN a ELSE b

\* --------------------------------------------------------------- variables

VARIABLES
    \* the C globals of xd_readline.c
    xd_original_tty_attributes,
    xd_tty_win_width,
    xd_tty_win_resized,
    xd_tty_cursor_row,
    xd_tty_cursor_col,
    xd_tty_chars_count,
    xd_input_buffer,        \* [0 .. xd_input_capacity-1 -> byte]
    xd_input_capacity,
    xd_input_length,
    xd_input_cursor,
    xd_readline_redraw,
    xd_readline_finished,
    xd_readline_return,     \* "NULL", "buffer" (the live input buffer) or
                            \* "freed" (a block realloc has since moved)
    xd_readline_prompt_length,
    xd_readline_prompt,     \* [null, str]: the caller's pointer
    xd_history,             \* [0 .. XD_HISTORY_MAX -> [str, capacity, length]]
    xd_history_nav_idx,
    xd_history_start_idx,
    xd_history_end_idx,
    xd_history_length,
    \* control and environment
    pc,                     \* where the caller / xd_readline() stands
    tty_attributes,         \* the attributes the terminal has now
    tty_columns,            \* the terminal's real width (ws_col)
    \* observations
    out,                    \* what the last step wrote to the terminal
    key,                    \* the handler the last step dispatched
    result,                 \* what the last xd_readline() returned
    status,                 \* what the last history_add returned
    cause,                  \* how the last read stopped
    entry_attributes,       \* the terminal's attributes when the read began
    oob,                    \* an input-buffer index outside [0, C) was used
    alloc_failed,           \* a realloc inside the last handler failed
    delivered,              \* the number of bytes the bounded reads have been given
    nav_track,              \* what is recorded of the navigation of the current read
    added                   \* arguments of the successful history_add calls
                            \* since the last history_clear, LF stripped

vars == <<xd_original_tty_attributes, xd_tty_win_width, xd_tty_win_resized,
          xd_tty_cursor_row, xd_tty_cursor_col, xd_tty_chars_count,
          xd_input_buffer, xd_input_capacity, xd_input_length, xd_input_cursor,
          xd_readline_redraw, xd_readline_finished, xd_readline_return,
          xd_readline_prompt_length, xd_readline_prompt, xd_history,
          xd_history_nav_idx, xd_history_start_idx, xd_history_end_idx,
          xd_history_length, pc, tty_attributes, tty_columns, out, key, result,
          status, cause, entry_attributes, oob, alloc_failed, nav_track, added,
          delivered>>

\* The globals a handler may change, as one record; out, oob and alloc_failed
\* start empty for the handler about to run.
G == [xd_tty_win_width |-> xd_tty_win_width,
      xd_tty_cursor_row |-> xd_tty_cursor_row,
      xd_tty_cursor_col |-> xd_tty_cursor_col,
      xd_tty_chars_count |-> xd_tty_chars_count,
      xd_input_buffer |-> xd_input_buffer,
      xd_input_capacity |-> xd_input_capacity,
      xd_input_length |-> xd_input_length,
      xd_input_cursor |-> xd_input_cursor,
      xd_readline_redraw |-> xd_readline_redraw,
      xd_readline_finished |-> xd_readline_finished,
      xd_readline_return |-> xd_readline_return,
      xd_history |-> xd_history,
      xd_history_nav_idx |-> xd_history_nav_idx,
      out |-> <<>>,
      fault |-> FALSE,
      oob |-> FALSE,
      alloc_failed |-> {},
      nav_track |-> nav_track]

\* ------------------------------------------------------------ input buffer

\* Whether every index of S is inside the buffer of g.
InBuffer(g, S) == \A i \in S : i >= 0 /\ i < g.xd_input_capacity

\* The bytes B[0 .. n-1] as a sequence.
Bytes(buf, n) == [i \in 1 .. n |-> buf[i - 1]]

\* realloc(): the old bytes, then indeterminate ones.
Realloc(buf, n) == [i \in 0 .. n - 1 |-> IF i \in DOMAIN buf THEN buf[i] ELSE Undef]

\* An insert that stores the character at the end of the line.
insert_at_end(g, chr) ==
    LET L == g.xd_input_length
        B == g.xd_input_buffer
        stored == [i \in DOMAIN B |->
                     IF i = L THEN chr
                     ELSE IF i = L + 1 THEN XD_ASCII_NUL
                     ELSE B[i]]
    IN  [g EXCEPT !.xd_input_buffer = stored,
                  !.xd_input_cursor = g.xd_input_cursor + 1,
                  !.xd_input_length = L + 1,
                  !.oob = g.oob \/ ~InBuffer(g, L .. L + 1)]

xd_input_buffer_insert(g, chr) ==
    LET L == g.xd_input_length
        P == g.xd_input_cursor
        B == g.xd_input_buffer
        touched == P .. L + 1
        shifted == [i \in DOMAIN B |->
                      IF i = P THEN chr
                      ELSE IF i > P /\ i <= L THEN B[i - 1]
                      ELSE IF i = L + 1 THEN XD_ASCII_NUL
                      ELSE B[i]]
    IN  [g EXCEPT !.xd_input_buffer = shifted,
                  !.xd_input_cursor = P + 1,
                  !.xd_input_length = L + 1,
                  !.oob = g.oob \/ ~InBuffer(g, touched)]

xd_input_buffer_remove_before_cursor(g, n) ==
    LET L == g.xd_input_length
        P == g.xd_input_cursor
        B == g.xd_input_buffer
        touched == IF P < L THEN (P - n) .. (L - 1) ELSE {}
        shifted == [i \in DOMAIN B |->
                      IF i >= P - n /\ i < L - n /\ i + n \in DOMAIN B
                      THEN B[i + n] ELSE B[i]]
    IN  IF P < n THEN g
        ELSE [g EXCEPT !.xd_input_buffer = shifted,
                       !.xd_input_cursor = P - n,
                       !.xd_input_length = L - n,
                       !.oob = g.oob \/ ~InBuffer(g, touched)]

\* A removal from the cursor that shortens the line without shifting what
\* follows the removed bytes.
remove_from_cursor_without_shift(g, n) ==
    IF g.xd_input_length - g.xd_input_cursor < n THEN g
    ELSE [g EXCEPT !.xd_input_length = g.xd_input_length - n]

xd_input_buffer_remove_from_cursor(g, n) ==
    LET L == g.xd_input_length
        P == g.xd_input_cursor
        B == g.xd_input_buffer
        touched == IF P < L - n THEN P .. (L - 1) ELSE {}
        shifted == [i \in DOMAIN B |->
                      IF i >= P /\ i < L - n /\ i + n \in DOMAIN B
                      THEN B[i + n] ELSE B[i]]
    IN  IF L - P < n THEN g
        ELSE [g EXCEPT !.xd_input_buffer = shifted,
                       !.xd_input_length = L - n,
                       !.oob = g.oob \/ ~InBuffer(g, touched)]

\* The two loops of the word queries, as the index each one stops at.
RECURSIVE SkipRight(_, _, _, _)
SkipRight(buf, L, idx, alnum) ==
    IF idx < L /\ idx \in DOMAIN buf /\ (isalnum(buf[idx]) = alnum)
    THEN SkipRight(buf, L, idx + 1, alnum) ELSE idx

RECURSIVE SkipLeft(_, _, _)
SkipLeft(buf, idx, alnum) ==
    IF idx > 0 /\ idx - 1 \in DOMAIN buf /\ (isalnum(buf[idx - 1]) = alnum)
    THEN SkipLeft(buf, idx - 1, alnum) ELSE idx

xd_input_buffer_get_current_word_end(g) ==
    SkipRight(g.xd_input_buffer, g.xd_input_length,
              SkipRight(g.xd_input_buffer, g.xd_input_length,
                        g.xd_input_cursor, FALSE),
              TRUE)

\* A word start that skips the alphanumeric bytes only.
word_start_without_skip(g) ==
    SkipLeft(g.xd_input_buffer, g.xd_input_cursor, TRUE)

xd_input_buffer_get_current_word_start(g) ==
    SkipLeft(g.xd_input_buffer,
             SkipLeft(g.xd_input_buffer, g.xd_input_cursor, FALSE),
             TRUE)

\* The indices the word queries read: every idx a loop tests with idx < L
\* (rightwards), or idx - 1 with idx > 0 (leftwards).
WordEndReads(g) ==
    LET e == xd_input_buffer_get_current_word_end(g)
    IN  g.xd_input_cursor .. Min(e, g.xd_input_length - 1)

WordStartReads(g) ==
    LET s == xd_input_buffer_get_current_word_start(g)
    IN  (IF s > 0 THEN s - 1 ELSE 0) .. (g.xd_input_cursor - 1)

\* ------------------------------------------------- input buffer <-> history

\* What the allocator may answer inside a handler: save is whether the
\* realloc of a history entry succeeds; load is "fail", or how the realloc
\* of the input buffer succeeds ("inplace", or "moved" to a new block).
AllocOutcomes == [save : BOOLEAN, load : {"inplace", "moved", "fail"}]

\* A save that stores nothing.
save_to_history_nothing(g, a) == g

\* A save that writes the scratch slot only.
save_to_history_scratch_only(g, a) ==
    LET L == g.xd_input_length
        history_entry == g.xd_history[XD_HISTORY_MAX]
        grows == L > history_entry.capacity - 1
        new_capacity == RoundUpLineMax(L + 1)
        stored == [str |-> Bytes(g.xd_input_buffer, L),
                   capacity |-> IF grows THEN new_capacity
                                ELSE history_entry.capacity,
                   length |-> L]
    IN  IF g.xd_history_nav_idx # XD_HISTORY_MAX THEN g
        ELSE IF grows /\ (~a.save \/ new_capacity > MaxCap)
        THEN [g EXCEPT !.alloc_failed = g.alloc_failed \cup {"save"}]
        ELSE [g EXCEPT !.xd_history[XD_HISTORY_MAX] = stored,
                       !.oob = g.oob \/ ~InBuffer(g, 0 .. L - 1)]

xd_input_buffer_save_to_history(g, a) ==
    LET L == g.xd_input_length
        history_entry == g.xd_history[g.xd_history_nav_idx]
        grows == L > history_entry.capacity - 1
        new_capacity == RoundUpLineMax(L + 1)
        stored == [str |-> Bytes(g.xd_input_buffer, L),
                   capacity |-> IF grows THEN new_capacity
                                ELSE history_entry.capacity,
                   length |-> L]
    IN  IF grows /\ (~a.save \/ new_capacity > MaxCap)
        THEN [g EXCEPT !.alloc_failed = g.alloc_failed \cup {"save"}]
        ELSE [g EXCEPT !.xd_history[g.xd_history_nav_idx] = stored,
                       !.oob = g.oob \/ ~InBuffer(g, 0 .. L - 1)]

xd_input_buffer_load_from_history(g, a) ==
    LET history_entry == g.xd_history[g.xd_history_nav_idx]
        grows == history_entry.length > g.xd_input_capacity - 1
        new_capacity == RoundUpLineMax(history_entry.length + 1)
        C == IF grows THEN new_capacity ELSE g.xd_input_capacity
        block == IF grows THEN Realloc(g.xd_input_buffer, new_capacity)
                 ELSE g.xd_input_buffer
        L == history_entry.length
        loaded == [i \in DOMAIN block |->
                     IF i < L THEN history_entry.str[i + 1]
                     ELSE IF i = L THEN XD_ASCII_NUL
                     ELSE block[i]]
    IN  IF grows /\ (a.load = "fail" \/ new_capacity > MaxCap)
        THEN [g EXCEPT !.alloc_failed = g.alloc_failed \cup {"load"}]
        ELSE [g EXCEPT !.xd_input_capacity = C,
                       !.xd_input_buffer = loaded,
                       !.xd_input_length = L,
                       !.xd_input_cursor = L,
                       \* xd_readline_return is not reassigned: it keeps the
                       \* address of the block realloc has just released
                       !.xd_readline_return =
                           IF grows /\ a.load = "moved"
                              /\ g.xd_readline_return = "buffer"
                           THEN "freed" ELSE g.xd_readline_return,
                       !.oob = g.oob \/ L > C - 1]

\* ---------------------------------------------------------------- terminal

\* A pointer to bytes: null, or the C string str.
NullPtr == [null |-> TRUE, str |-> <<>>]
Str(s) == [null |-> FALSE, str |-> s]

\* What a write hands to the terminal: raw bytes, or a formatted sequence.
Raw(bytes) == [op |-> "write", arg |-> bytes]
Ansi(name, n) == [op |-> name, arg |-> <<n>>]

\* write(2) of length bytes at data; a null data faults (EFAULT, -1).
xd_tty_write(g, data, length) ==
    IF length <= 0 THEN g
    ELSE IF data.null THEN [g EXCEPT !.fault = TRUE]
    ELSE [g EXCEPT !.out = Append(g.out, Raw(SubSeq(data.str, 1, length)))]

xd_tty_write_ansii_sequence(g, name, n) ==
    [g EXCEPT !.out = Append(g.out, Ansi(name, n))]

xd_tty_bell(g) == xd_tty_write(g, Str(<<XD_ASCII_BEL>>), 1)

FlatPos(g) ==
    ((g.xd_tty_cursor_row - 1) * g.xd_tty_win_width) + g.xd_tty_cursor_col - 1

xd_tty_write_track(g, data, length) ==
    IF length <= 0 THEN g
    ELSE LET g1 == xd_tty_write(g, data, length)
             cursor_flat_pos == FlatPos(g) + length
             row == CDiv(cursor_flat_pos, g.xd_tty_win_width) + 1
             col == CMod(cursor_flat_pos, g.xd_tty_win_width) + 1
             g2 == [g1 EXCEPT !.xd_tty_chars_count = g.xd_tty_chars_count + length,
                              !.xd_tty_cursor_row = row,
                              !.xd_tty_cursor_col = col]
             g3 == IF col = 1 THEN xd_tty_write(g2, Str(<<32>>), 1) ELSE g2
         IN  xd_tty_write_ansii_sequence(g3, "CRSR_SET_COL", col)

xd_tty_cursor_move_left_wrap(g, n) ==
    IF n = 0 THEN g
    ELSE LET cursor_flat_pos == FlatPos(g) - n
             new_cursor_row == CDiv(cursor_flat_pos, g.xd_tty_win_width) + 1
             new_cursor_col == CMod(cursor_flat_pos, g.xd_tty_win_width) + 1
             g1 == IF new_cursor_row # g.xd_tty_cursor_row
                   THEN [xd_tty_write_ansii_sequence(g, "CRSR_MV_UP",
                             g.xd_tty_cursor_row - new_cursor_row)
                         EXCEPT !.xd_tty_cursor_row = new_cursor_row]
                   ELSE g
         IN  [xd_tty_write_ansii_sequence(g1, "CRSR_SET_COL", new_cursor_col)
              EXCEPT !.xd_tty_cursor_col = new_cursor_col]

xd_tty_cursor_move_right_wrap(g, n) ==
    IF n = 0 THEN g
    ELSE LET cursor_flat_pos == FlatPos(g) + n
             new_cursor_row == CDiv(cursor_flat_pos, g.xd_tty_win_width) + 1
             new_cursor_col == CMod(cursor_flat_pos, g.xd_tty_win_width) + 1
             g1 == IF new_cursor_row # g.xd_tty_cursor_row
                   THEN [xd_tty_write_ansii_sequence(g, "CRSR_MV_DN",
                             new_cursor_row - g.xd_tty_cursor_row)
                         EXCEPT !.xd_tty_cursor_row = new_cursor_row]
                   ELSE g
         IN  [xd_tty_write_ansii_sequence(g1, "CRSR_SET_COL", new_cursor_col)
              EXCEPT !.xd_tty_cursor_col = new_cursor_col]

\* The loop of xd_tty_input_clear, from its i-th round on.
RECURSIVE ClearRows(_, _, _)
ClearRows(g, i, rows) ==
    IF i >= rows THEN g
    ELSE LET g1 == [xd_tty_write_ansii_sequence(g, "LINE_CLR", 0)
                    EXCEPT !.xd_tty_cursor_col = 1]
             g2 == IF i < rows - 1
                   THEN [xd_tty_write_ansii_sequence(g1, "CRSR_MV_UP", 1)
                         EXCEPT !.xd_tty_cursor_row = g1.xd_tty_cursor_row - 1]
                   ELSE g1
         IN  ClearRows(g2, i + 1, rows)

\* A clear that starts from the row the cursor is in.
input_clear_from_cursor_row(g) ==
    LET rows == CDiv(g.xd_tty_chars_count + g.xd_tty_win_width, g.xd_tty_win_width)
    IN  [ClearRows(g, 0, rows) EXCEPT !.xd_tty_chars_count = 0]

xd_tty_input_clear(g) ==
    LET g1 == xd_tty_cursor_move_right_wrap(g, g.xd_tty_chars_count - FlatPos(g))
        rows == CDiv(g.xd_tty_chars_count + g.xd_tty_win_width, g.xd_tty_win_width)
    IN  [ClearRows(g1, 0, rows) EXCEPT !.xd_tty_chars_count = 0]

\* A redraw that writes over what is on the screen.
input_redraw_without_clear(g) ==
    LET g2 == xd_tty_write_track(g, xd_readline_prompt, xd_readline_prompt_length)
        g3 == xd_tty_write_track(g2, Str(Bytes(g.xd_input_buffer, g.xd_input_length)),
                                 g.xd_input_length)
    IN  xd_tty_cursor_move_left_wrap(g3, g.xd_input_length - g.xd_input_cursor)

xd_tty_input_redraw(g) ==
    LET g1 == xd_tty_input_clear(g)
        g2 == xd_tty_write_track(g1, xd_readline_prompt, xd_readline_prompt_length)
        g3 == xd_tty_write_track(g2, Str(Bytes(g.xd_input_buffer, g.xd_input_length)),
                                 g.xd_input_length)
    IN  xd_tty_cursor_move_left_wrap(g3, g.xd_input_length - g.xd_input_cursor)

\* A resize that keeps the row and the column the cursor had.
screen_resize_keeps_row_col(g, ws_col, ioctl_ok) ==
    IF ~ioctl_ok THEN g
    ELSE [g EXCEPT !.xd_tty_win_width = ws_col, !.xd_readline_redraw = 1]

\* ioctl(TIOCGWINSZ) answers ws_col, or fails (ioctl_ok = FALSE).
xd_tty_screen_resize(g, ws_col, ioctl_ok) ==
    IF ~ioctl_ok THEN g
    ELSE LET cursor_flat_pos == FlatPos(g)
         IN  [g EXCEPT !.xd_tty_win_width = ws_col,
                       !.xd_tty_cursor_row = CDiv(cursor_flat_pos, ws_col) + 1,
                       !.xd_tty_cursor_col = CMod(cursor_flat_pos, ws_col) + 1,
                       !.xd_readline_redraw = 1]

\* ---------------------------------------------------------------- handlers

\* A printable key that writes its byte without counting it.
printable_written_untracked(g, chr) ==
    LET g1 == xd_input_buffer_insert(g, chr)
    IN  IF g1.xd_input_cursor = g1.xd_input_length
        THEN xd_tty_write(g1, Str(<<chr>>), 1)
        ELSE [g1 EXCEPT !.xd_readline_redraw = 1]

xd_input_handle_printable(g, chr) ==
    LET g1 == xd_input_buffer_insert(g, chr)
    IN  IF g1.xd_input_cursor = g1.xd_input_length
        THEN xd_tty_write_track(g1, Str(<<chr>>), 1)
        ELSE [g1 EXCEPT !.xd_readline_redraw = 1]

\* A Ctrl+A that leaves the cursor of the terminal where it is.
ctrl_a_without_cursor_move(g) == [g EXCEPT !.xd_input_cursor = 0]

xd_input_handle_ctrl_a(g) ==
    IF g.xd_input_cursor = 0 THEN g
    ELSE [xd_tty_cursor_move_left_wrap(g, g.xd_input_cursor)
          EXCEPT !.xd_input_cursor = 0]

xd_input_handle_ctrl_b(g) ==
    IF g.xd_input_cursor = 0 THEN xd_tty_bell(g)
    ELSE [xd_tty_cursor_move_left_wrap(g, 1)
          EXCEPT !.xd_input_cursor = g.xd_input_cursor - 1]

xd_input_handle_delete(g) ==
    IF g.xd_input_cursor = g.xd_input_length THEN xd_tty_bell(g)
    ELSE [xd_input_buffer_remove_from_cursor(g, 1) EXCEPT !.xd_readline_redraw = 1]

\* A Ctrl+D that ends the read whatever the input buffer holds.
ctrl_d_always_finishes(g) ==
    [g EXCEPT !.xd_readline_finished = 1, !.xd_readline_return = "NULL"]

xd_input_handle_ctrl_d(g) ==
    IF g.xd_input_length = 0
    THEN [g EXCEPT !.xd_readline_finished = 1, !.xd_readline_return = "NULL"]
    ELSE xd_input_handle_delete(g)

xd_input_handle_ctrl_e(g) ==
    IF g.xd_input_cursor = g.xd_input_length THEN g
    ELSE [xd_tty_cursor_move_right_wrap(g, g.xd_input_length - g.xd_input_cursor)
          EXCEPT !.xd_input_cursor = g.xd_input_length]

xd_input_handle_ctrl_f(g) ==
    IF g.xd_input_cursor = g.xd_input_length THEN xd_tty_bell(g)
    ELSE [xd_tty_cursor_move_right_wrap(g, 1)
          EXCEPT !.xd_input_cursor = g.xd_input_cursor + 1]

xd_input_handle_ctrl_g(g) == xd_tty_bell(g)

\* A Ctrl+H that does not look at the cursor.
ctrl_h_without_bell(g) ==
    [xd_input_buffer_remove_before_cursor(g, 1) EXCEPT !.xd_readline_redraw = 1]

xd_input_handle_ctrl_h(g) ==
    IF g.xd_input_cursor = 0 THEN xd_tty_bell(g)
    ELSE [xd_input_buffer_remove_before_cursor(g, 1) EXCEPT !.xd_readline_redraw = 1]

xd_input_handle_ctrl_k(g) ==
    IF g.xd_input_cursor = g.xd_input_length THEN xd_tty_bell(g)
    ELSE [xd_input_buffer_remove_from_cursor(g, g.xd_input_length - g.xd_input_cursor)
          EXCEPT !.xd_readline_redraw = 1]

xd_input_handle_ctrl_l(g) ==
    [xd_tty_write_ansii_sequence(xd_tty_write_ansii_sequence(g, "SCRN_CLR", 0),
                                 "CRSR_MV_HOME", 0)
     EXCEPT !.xd_tty_cursor_row = 1,
            !.xd_tty_cursor_col = 1,
            !.xd_readline_redraw = 1]

xd_input_handle_ctrl_u(g) ==
    IF g.xd_input_cursor = 0 THEN xd_tty_bell(g)
    ELSE [xd_input_buffer_remove_before_cursor(g, g.xd_input_cursor)
          EXCEPT !.xd_readline_redraw = 1]

xd_input_handle_backspace(g) == xd_input_handle_ctrl_h(g)

\* An Enter that leaves the cursor where it is.
enter_without_cursor_move(g) ==
    LET L == g.xd_input_length
        B == g.xd_input_buffer
        stored == [i \in DOMAIN B |->
                     IF i = L THEN XD_ASCII_LF
                     ELSE IF i = L + 1 THEN XD_ASCII_NUL
                     ELSE B[i]]
    IN  [g EXCEPT !.xd_input_buffer = stored,
                  !.xd_input_length = L + 1,
                  !.xd_readline_finished = 1,
                  !.oob = g.oob \/ ~InBuffer(g, L .. L + 1)]

xd_input_handle_enter(g) ==
    LET L == g.xd_input_length
        B == g.xd_input_buffer
        stored == [i \in DOMAIN B |->
                     IF i = L THEN XD_ASCII_LF
                     ELSE IF i = L + 1 THEN XD_ASCII_NUL
                     ELSE B[i]]
        g1 == [g EXCEPT !.xd_input_buffer = stored,
                        !.xd_input_length = L + 1,
                        !.xd_readline_finished = 1,
                        !.oob = g.oob \/ ~InBuffer(g, L .. L + 1)]
    IN  xd_tty_cursor_move_right_wrap(g1, (L + 1) - g.xd_input_cursor - 1)

\* An Up that does not stop at the oldest entry.
up_arrow_past_oldest(g, a) ==
    IF xd_history_length = 0
    THEN xd_tty_bell(g)
    ELSE LET g1 == xd_input_buffer_save_to_history(g, a)
             g2 == [g1 EXCEPT !.xd_history_nav_idx =
                        IF g.xd_history_nav_idx = XD_HISTORY_MAX
                        THEN xd_history_end_idx
                        ELSE (g.xd_history_nav_idx - 1 + XD_HISTORY_MAX)
                             % XD_HISTORY_MAX]
         IN  [xd_input_buffer_load_from_history(g2, a)
              EXCEPT !.xd_readline_redraw = 1]

xd_input_handle_up_arrow(g, a) ==
    IF xd_history_length = 0 \/ g.xd_history_nav_idx = xd_history_start_idx
    THEN xd_tty_bell(g)
    ELSE LET g1 == xd_input_buffer_save_to_history(g, a)
             g2 == [g1 EXCEPT !.xd_history_nav_idx =
                        IF g.xd_history_nav_idx = XD_HISTORY_MAX
                        THEN xd_history_end_idx
                        ELSE (g.xd_history_nav_idx - 1 + XD_HISTORY_MAX)
                             % XD_HISTORY_MAX]
         IN  [xd_input_buffer_load_from_history(g2, a)
              EXCEPT !.xd_readline_redraw = 1]

\* A Down that steps past the newest entry instead of returning to the
\* scratch slot.
down_arrow_past_newest(g, a) ==
    IF xd_history_length = 0 \/ g.xd_history_nav_idx = XD_HISTORY_MAX
    THEN xd_tty_bell(g)
    ELSE LET g1 == xd_input_buffer_save_to_history(g, a)
             g2 == [g1 EXCEPT !.xd_history_nav_idx =
                        (g.xd_history_nav_idx + 1) % XD_HISTORY_MAX]
         IN  [xd_input_buffer_load_from_history(g2, a)
              EXCEPT !.xd_readline_redraw = 1]

xd_input_handle_down_arrow(g, a) ==
    IF xd_history_length = 0 \/ g.xd_history_nav_idx = XD_HISTORY_MAX
    THEN xd_tty_bell(g)
    ELSE LET g1 == xd_input_buffer_save_to_history(g, a)
             g2 == [g1 EXCEPT !.xd_history_nav_idx =
                        IF g.xd_history_nav_idx = xd_history_end_idx
                        THEN XD_HISTORY_MAX
                        ELSE (g.xd_history_nav_idx + 1) % XD_HISTORY_MAX]
         IN  [xd_input_buffer_load_from_history(g2, a)
              EXCEPT !.xd_readline_redraw = 1]

xd_input_handle_right_arrow(g) == xd_input_handle_ctrl_f(g)
xd_input_handle_left_arrow(g) == xd_input_handle_ctrl_b(g)
xd_input_handle_home(g) == xd_input_handle_ctrl_a(g)
xd_input_handle_end(g) == xd_input_handle_ctrl_e(g)

xd_input_handle_alt_f(g) ==
    IF g.xd_input_cursor = g.xd_input_length THEN xd_tty_bell(g)
    ELSE LET idx == xd_input_buffer_get_current_word_end(g)
         IN  [xd_tty_cursor_move_right_wrap(g, idx - g.xd_input_cursor)
              EXCEPT !.xd_input_cursor = idx,
                     !.oob = g.oob \/ ~InBuffer(g, WordEndReads(g))]

xd_input_handle_alt_b(g) ==
    IF g.xd_input_cursor = 0 THEN xd_tty_bell(g)
    ELSE LET idx == xd_input_buffer_get_current_word_start(g)
         IN  [xd_tty_cursor_move_left_wrap(g, g.xd_input_cursor - idx)
              EXCEPT !.xd_input_cursor = idx,
                     !.oob = g.oob \/ ~InBuffer(g, WordStartReads(g))]

xd_input_handle_alt_d(g) ==
    IF g.xd_input_cursor = g.xd_input_length THEN xd_tty_bell(g)
    ELSE LET idx == xd_input_buffer_get_current_word_end(g)
             g1 == [g EXCEPT !.oob = g.oob \/ ~InBuffer(g, WordEndReads(g))]
         IN  [xd_input_buffer_remove_from_cursor(g1, idx - g.xd_input_cursor)
              EXCEPT !.xd_readline_redraw = 1]

xd_input_handle_alt_backspace(g) ==
    IF g.xd_input_cursor = 0 THEN xd_tty_bell(g)
    ELSE LET idx == xd_input_buffer_get_current_word_start(g)
             g1 == [g EXCEPT !.oob = g.oob \/ ~InBuffer(g, WordStartReads(g))]
         IN  [xd_input_buffer_remove_before_cursor(g1, g.xd_input_cursor - idx)
              EXCEPT !.xd_readline_redraw = 1]

xd_input_handle_ctrl_right_arrow(g) == xd_input_handle_alt_f(g)
xd_input_handle_ctrl_left_arrow(g) == xd_input_handle_alt_b(g)
xd_input_handle_ctrl_delete(g) == xd_input_handle_alt_d(g)

\* ----------------------------------------------------------------- decoder

xd_esc_seq_bindings ==
    << [sequence |-> <<27, 91, 65>>,             handler |-> "xd_input_handle_up_arrow"],
       [sequence |-> <<27, 91, 66>>,             handler |-> "xd_input_handle_down_arrow"],
       [sequence |-> <<27, 91, 67>>,             handler |-> "xd_input_handle_right_arrow"],
       [sequence |-> <<27, 91, 68>>,             handler |-> "xd_input_handle_left_arrow"],
       [sequence |-> <<27, 91, 72>>,             handler |-> "xd_input_handle_home"],
       [sequence |-> <<27, 91, 70>>,             handler |-> "xd_input_handle_end"],
       [sequence |-> <<27, 91, 51, 126>>,        handler |-> "xd_input_handle_delete"],
       [sequence |-> <<27, 102>>,                handler |-> "xd_input_handle_alt_f"],
       [sequence |-> <<27, 98>>,                 handler |-> "xd_input_handle_alt_b"],
       [sequence |-> <<27, 100>>,                handler |-> "xd_input_handle_alt_d"],
       [sequence |-> <<27, 127>>,                handler |-> "xd_input_handle_alt_backspace"],
       [sequence |-> <<27, 91, 49, 59, 53, 67>>, handler |-> "xd_input_handle_ctrl_right_arrow"],
       [sequence |-> <<27, 91, 49, 59, 53, 68>>, handler |-> "xd_input_handle_ctrl_left_arrow"],
       [sequence |-> <<27, 91, 51, 59, 53, 126>>, handler |-> "xd_input_handle_ctrl_delete"] >>

xd_esc_seq_bindings_length == Len(xd_esc_seq_bindings)

\* The call through a binding's function pointer.
CallHandler(name, g, a) ==
    CASE name = "xd_input_handle_up_arrow" -> xd_input_handle_up_arrow(g, a)
      [] name = "xd_input_handle_down_arrow" -> xd_input_handle_down_arrow(g, a)
      [] name = "xd_input_handle_right_arrow" -> xd_input_handle_right_arrow(g)
      [] name = "xd_input_handle_left_arrow" -> xd_input_handle_left_arrow(g)
      [] name = "xd_input_handle_home" -> xd_input_handle_home(g)
      [] name = "xd_input_handle_end" -> xd_input_handle_end(g)
      [] name = "xd_input_handle_delete" -> xd_input_handle_delete(g)
      [] name = "xd_input_handle_alt_f" -> xd_input_handle_alt_f(g)
      [] name = "xd_input_handle_alt_b" -> xd_input_handle_alt_b(g)
      [] name = "xd_input_handle_alt_d" -> xd_input_handle_alt_d(g)
      [] name = "xd_input_handle_alt_backspace" -> xd_input_handle_alt_backspace(g)
      [] name = "xd_input_handle_ctrl_right_arrow" -> xd_input_handle_ctrl_right_arrow(g)
      [] name = "xd_input_handle_ctrl_left_arrow" -> xd_input_handle_ctrl_left_arrow(g)
      [] name = "xd_input_handle_ctrl_delete" -> xd_input_handle_ctrl_delete(g)

\* A char array read as a C string: the bytes before its first NUL.
RECURSIVE CStr(_)
CStr(b) == IF b = <<>> \/ Head(b) = XD_ASCII_NUL THEN <<>>
           ELSE <<Head(b)>> \o CStr(Tail(b))

\* The byte of C string s at (1-based) position j; its terminator past the end.
CharAt(s, j) == IF j <= Len(s) THEN s[j] ELSE XD_ASCII_NUL

\* strcmp(s, t) == 0 and strncmp(s, t, n) == 0, of C strings.
StrEq(s, t) == s = t
StrNEq(s, t, n) ==
    \A j \in 1 .. Min(n, Min(Len(s), Len(t)) + 1) : CharAt(s, j) = CharAt(t, j)

\* A scan that remembers only whether the staged bytes are a prefix of the
\* binding it looked at last.
RECURSIVE ScanBindings_last_prefix(_, _, _, _)
ScanBindings_last_prefix(table, buffer, i, is_valid_prefix) ==
    IF i > Len(table) THEN [match |-> 0, is_valid_prefix |-> is_valid_prefix]
    ELSE IF StrEq(CStr(buffer), table[i].sequence)
    THEN [match |-> i, is_valid_prefix |-> is_valid_prefix]
    ELSE ScanBindings_last_prefix(table, buffer, i + 1,
                                  StrNEq(CStr(buffer), table[i].sequence, Len(buffer)))

\* A scan that takes every staged sequence for the prefix of a binding.
RECURSIVE ScanBindings_always_prefix(_, _, _, _)
ScanBindings_always_prefix(table, buffer, i, is_valid_prefix) ==
    IF i > Len(table) THEN [match |-> 0, is_valid_prefix |-> TRUE]
    ELSE IF StrEq(CStr(buffer), table[i].sequence)
    THEN [match |-> i, is_valid_prefix |-> TRUE]
    ELSE ScanBindings_always_prefix(table, buffer, i + 1, TRUE)

\* The for loop over the table, from binding i on: the first binding the
\* staged bytes equal (0: none), and is_valid_prefix at the end of the loop.
RECURSIVE ScanBindings(_, _, _, _)
ScanBindings(table, buffer, i, is_valid_prefix) ==
    IF i > Len(table) THEN [match |-> 0, is_valid_prefix |-> is_valid_prefix]
    ELSE IF StrEq(CStr(buffer), table[i].sequence)
    THEN [match |-> i, is_valid_prefix |-> is_valid_prefix]
    ELSE ScanBindings(table, buffer, i + 1,
                      is_valid_prefix
                          \/ StrNEq(CStr(buffer), table[i].sequence, Len(buffer)))

\* What a dispatch gives: the globals after it, the handler that ran ("none"
\* when no handler ran) and the bytes the decoder staged.
Dispatched(g, k, staged) == [g |-> g, key |-> k, staged |-> staged]

\* The while loop of the decoder; tail is what read() delivers, byte by
\* byte, and read() delivers nothing once tail is used up.
RECURSIVE DecodeLoop(_, _, _, _, _)
DecodeLoop(table, g, buffer, tail, a) ==
    IF ~(Len(buffer) < XD_SMALL_BUFFER_SIZE - 1) THEN Dispatched(g, "none", buffer)
    ELSE IF tail = <<>> THEN Dispatched(g, "none", buffer)
    ELSE LET staged == Append(buffer, Head(tail))
             scan == ScanBindings(table, staged, 1, FALSE)
         IN  IF scan.match # 0
             THEN Dispatched(CallHandler(table[scan.match].handler, g, a),
                             table[scan.match].handler, staged)
             ELSE IF ~scan.is_valid_prefix THEN Dispatched(g, "none", staged)
             ELSE DecodeLoop(table, g, staged, Tail(tail), a)

xd_input_handle_escape_sequence(g, tail, a) ==
    DecodeLoop(xd_esc_seq_bindings, g, <<XD_ASCII_ESC>>, tail, a)

\* A dispatch whose default case rings the bell.
control_default_rings_bell(g, chr, tail, a) ==
    CASE chr = XD_ASCII_SOH -> Dispatched(xd_input_handle_ctrl_a(g), "xd_input_handle_ctrl_a", <<>>)
      [] chr = XD_ASCII_STX -> Dispatched(xd_input_handle_ctrl_b(g), "xd_input_handle_ctrl_b", <<>>)
      [] chr = XD_ASCII_EOT -> Dispatched(xd_input_handle_ctrl_d(g), "xd_input_handle_ctrl_d", <<>>)
      [] chr = XD_ASCII_ENQ -> Dispatched(xd_input_handle_ctrl_e(g), "xd_input_handle_ctrl_e", <<>>)
      [] chr = XD_ASCII_ACK -> Dispatched(xd_input_handle_ctrl_f(g), "xd_input_handle_ctrl_f", <<>>)
      [] chr = XD_ASCII_BEL -> Dispatched(xd_input_handle_ctrl_g(g), "xd_input_handle_ctrl_g", <<>>)
      [] chr = XD_ASCII_BS -> Dispatched(xd_input_handle_ctrl_h(g), "xd_input_handle_ctrl_h", <<>>)
      [] chr = XD_ASCII_LF -> Dispatched(xd_input_handle_enter(g), "xd_input_handle_enter", <<>>)
      [] chr = XD_ASCII_VT -> Dispatched(xd_input_handle_ctrl_k(g), "xd_input_handle_ctrl_k", <<>>)
      [] chr = XD_ASCII_FF -> Dispatched(xd_input_handle_ctrl_l(g), "xd_input_handle_ctrl_l", <<>>)
      [] chr = XD_ASCII_NAK -> Dispatched(xd_input_handle_ctrl_u(g), "xd_input_handle_ctrl_u", <<>>)
      [] chr = XD_ASCII_ESC -> xd_input_handle_escape_sequence(g, tail, a)
      [] chr = XD_ASCII_DEL -> Dispatched(xd_input_handle_backspace(g), "xd_input_handle_backspace", <<>>)
      [] OTHER -> Dispatched(xd_tty_bell(g), "none", <<>>)

xd_input_handle_control(g, chr, tail, a) ==
    CASE chr = XD_ASCII_SOH -> Dispatched(xd_input_handle_ctrl_a(g), "xd_input_handle_ctrl_a", <<>>)
      [] chr = XD_ASCII_STX -> Dispatched(xd_input_handle_ctrl_b(g), "xd_input_handle_ctrl_b", <<>>)
      [] chr = XD_ASCII_EOT -> Dispatched(xd_input_handle_ctrl_d(g), "xd_input_handle_ctrl_d", <<>>)
      [] chr = XD_ASCII_ENQ -> Dispatched(xd_input_handle_ctrl_e(g), "xd_input_handle_ctrl_e", <<>>)
      [] chr = XD_ASCII_ACK -> Dispatched(xd_input_handle_ctrl_f(g), "xd_input_handle_ctrl_f", <<>>)
      [] chr = XD_ASCII_BEL -> Dispatched(xd_input_handle_ctrl_g(g), "xd_input_handle_ctrl_g", <<>>)
      [] chr = XD_ASCII_BS -> Dispatched(xd_input_handle_ctrl_h(g), "xd_input_handle_ctrl_h", <<>>)
      [] chr = XD_ASCII_LF -> Dispatched(xd_input_handle_enter(g), "xd_input_handle_enter", <<>>)
      [] chr = XD_ASCII_VT -> Dispatched(xd_input_handle_ctrl_k(g), "xd_input_handle_ctrl_k", <<>>)
      [] chr = XD_ASCII_FF -> Dispatched(xd_input_handle_ctrl_l(g), "xd_input_handle_ctrl_l", <<>>)
      [] chr = XD_ASCII_NAK -> Dispatched(xd_input_handle_ctrl_u(g), "xd_input_handle_ctrl_u", <<>>)
      [] chr = XD_ASCII_ESC -> xd_input_handle_escape_sequence(g, tail, a)
      [] chr = XD_ASCII_DEL -> Dispatched(xd_input_handle_backspace(g), "xd_input_handle_backspace", <<>>)
      [] OTHER -> Dispatched(g, "none", <<>>)

xd_input_handler(g, chr, tail, a) ==
    IF isprint(chr)
    THEN Dispatched(xd_input_handle_printable(g, chr), "xd_input_handle_printable", <<>>)
    ELSE IF iscntrl(chr) THEN xd_input_handle_control(g, chr, tail, a)
    ELSE Dispatched(g, "none", <<>>)

\* ------------------------------------------------------------- history API

\* The ring before a call, as one record.
Ring == [xd_history |-> xd_history,
         xd_history_nav_idx |-> xd_history_nav_idx,
         xd_history_start_idx |-> xd_history_start_idx,
         xd_history_end_idx |-> xd_history_end_idx,
         xd_history_length |-> xd_history_length,
         ret |-> 0]

EmptyEntry == [str |-> <<>>, capacity |-> LineMax, length |-> 0]

\* An argument kept whole.
StripLF_nothing(s) == s

\* The argument with one trailing LF left out, as history_add stores it.
StripLF(s) ==
    IF strlen(s) > 0 /\ s[strlen(s)] = XD_ASCII_LF THEN SubSeq(s, 1, strlen(s) - 1) ELSE s

\* A clear that leaves the scratch slot alone.
history_clear_ring_only(r) ==
    [r EXCEPT !.xd_history = [i \in 0 .. XD_HISTORY_MAX |->
                                 IF i < XD_HISTORY_MAX
                                 THEN [r.xd_history[i] EXCEPT !.length = 0, !.str = <<>>]
                                 ELSE r.xd_history[i]],
              !.xd_history_nav_idx = XD_HISTORY_MAX,
              !.xd_history_start_idx = 0,
              !.xd_history_end_idx = XD_HISTORY_MAX - 1,
              !.xd_history_length = 0]

xd_readline_history_clear(r) ==
    [r EXCEPT !.xd_history = [i \in 0 .. XD_HISTORY_MAX |->
                                 [r.xd_history[i] EXCEPT !.length = 0, !.str = <<>>]],
              !.xd_history_nav_idx = XD_HISTORY_MAX,
              !.xd_history_start_idx = 0,
              !.xd_history_end_idx = XD_HISTORY_MAX - 1,
              !.xd_history_length = 0]

\* An add that moves the ring's pointers before it grows the slot.
history_add_moves_first(r, str, alloc_ok) ==
    IF str.null THEN [r EXCEPT !.ret = -1]
    ELSE LET str_length == strlen(StripLF(str.str))
             new_end_idx == (r.xd_history_end_idx + 1) % XD_HISTORY_MAX
             history_entry == r.xd_history[new_end_idx]
             grows == str_length > history_entry.capacity - 1
             failed == grows /\ ~alloc_ok
             r1 == [r EXCEPT
                     !.xd_history_length =
                         IF r.xd_history_length < XD_HISTORY_MAX
                         THEN r.xd_history_length + 1 ELSE r.xd_history_length,
                     !.xd_history_start_idx =
                         IF r.xd_history_length < XD_HISTORY_MAX
                         THEN r.xd_history_start_idx
                         ELSE (r.xd_history_start_idx + 1) % XD_HISTORY_MAX,
                     !.xd_history_end_idx = new_end_idx]
         IN  IF failed THEN [r1 EXCEPT !.ret = -1]
             ELSE [r1 EXCEPT
                     !.xd_history[new_end_idx] =
                         [str |-> SubSeq(str.str, 1, str_length),
                          capacity |-> IF grows THEN RoundUpLineMax(str_length + 1)
                                       ELSE history_entry.capacity,
                          length |-> str_length],
                     !.ret = 0]

\* An add that leaves start where it is when the ring is full.
history_add_keeps_start(r, str, alloc_ok) ==
    IF str.null THEN [r EXCEPT !.ret = -1]
    ELSE LET str_length == strlen(StripLF(str.str))
             new_end_idx == (r.xd_history_end_idx + 1) % XD_HISTORY_MAX
             history_entry == r.xd_history[new_end_idx]
             grows == str_length > history_entry.capacity - 1
             new_capacity == RoundUpLineMax(str_length + 1)
         IN  IF grows /\ (~alloc_ok \/ new_capacity > MaxCap)
             THEN [r EXCEPT !.ret = -1]
             ELSE [r EXCEPT
                     !.xd_history_length =
                         IF r.xd_history_length < XD_HISTORY_MAX
                         THEN r.xd_history_length + 1 ELSE r.xd_history_length,
                     !.xd_history_end_idx = new_end_idx,
                     !.xd_history[new_end_idx] =
                         [str |-> SubSeq(str.str, 1, str_length),
                          capacity |-> IF grows THEN new_capacity
                                       ELSE history_entry.capacity,
                          length |-> str_length],
                     !.ret = 0]

\* str is a pointer (NullPtr or Str(s)); alloc_ok is whether a realloc the
\* call needs succeeds.
xd_readline_history_add(r, str, alloc_ok) ==
    IF str.null THEN [r EXCEPT !.ret = -1]
    ELSE LET str_length == strlen(StripLF(str.str))
             new_end_idx == (r.xd_history_end_idx + 1) % XD_HISTORY_MAX
             history_entry == r.xd_history[new_end_idx]
             grows == str_length > history_entry.capacity - 1
             new_capacity == RoundUpLineMax(str_length + 1)
         IN  IF grows /\ (~alloc_ok \/ new_capacity > MaxCap)
             THEN [r EXCEPT !.ret = -1]
             ELSE [r EXCEPT
                     !.xd_history_length =
                         IF r.xd_history_length < XD_HISTORY_MAX
                         THEN r.xd_history_length + 1 ELSE r.xd_history_length,
                     !.xd_history_start_idx =
                         IF r.xd_history_length < XD_HISTORY_MAX
                         THEN r.xd_history_start_idx
                         ELSE (r.xd_history_start_idx + 1) % XD_HISTORY_MAX,
                     !.xd_history_end_idx = new_end_idx,
                     !.xd_history[new_end_idx] =
                         [str |-> SubSeq(str.str, 1, str_length),
                          capacity |-> IF grows THEN new_capacity
                                       ELSE history_entry.capacity,
                          length |-> str_length],
                     !.ret = 0]

\* The strings history_print prints, in its order.
RECURSIVE PrintLoop(_, _, _)
PrintLoop(r, idx, i) ==
    IF i >= r.xd_history_length THEN <<>>
    ELSE <<r.xd_history[idx].str>> \o PrintLoop(r, (idx + 1) % XD_HISTORY_MAX, i + 1)

xd_readline_history_print(r) == PrintLoop(r, r.xd_history_start_idx, 0)

\* ---------------------------------------------------- terminal attributes

\* The fields of struct termios that xd_tty_raw changes.
TtyCooked == [ICANON |-> TRUE, ECHO |-> TRUE, VMIN |-> 1, VTIME |-> 0]
TtyNoEcho == [ICANON |-> TRUE, ECHO |-> FALSE, VMIN |-> 4, VTIME |-> 1]
TtyZero == [ICANON |-> FALSE, ECHO |-> FALSE, VMIN |-> 0, VTIME |-> 0]

\* The copy xd_tty_raw installs.
RawAttributes(attrs) ==
    [attrs EXCEPT !.ICANON = FALSE, !.ECHO = FALSE, !.VTIME = 0, !.VMIN = 1]

\* ------------------------------------------------------------------ inputs

\* Terminal widths (ws_col) the window may take.
Widths == {2, 3}

\* Values the caller gives xd_readline_prompt: null, or "> ".
Prompts == {NullPtr, Str(<<62, 32>>)}

\* Attributes the terminal may have when the program starts.
TtyModes == {TtyCooked, TtyNoEcho}

\* Bytes the terminal delivers to the main loop: 'a' and ' ', every bound
\* control byte, and NUL and TAB, which are bound to nothing.
Printables == {97, 32}
ControlBytes == {XD_ASCII_NUL, XD_ASCII_SOH, XD_ASCII_STX, XD_ASCII_EOT,
                 XD_ASCII_ENQ, XD_ASCII_ACK, XD_ASCII_BEL, XD_ASCII_BS, 9,
                 XD_ASCII_LF, XD_ASCII_VT, XD_ASCII_FF, XD_ASCII_NAK,
                 XD_ASCII_ESC, XD_ASCII_DEL}
InputBytes == Printables \cup ControlBytes

\* Byte streams the terminal delivers after an ESC: what follows ESC in each
\* binding, a stream that stops inside a binding, and unbound ones.
BindingTails == {Tail(xd_esc_seq_bindings[i].sequence) : i \in 1 .. xd_esc_seq_bindings_length}
EscTails == BindingTails \cup {<<>>, <<91>>, <<91, 51>>, <<120>>, <<91, 120>>, <<91, 49, 59, 65>>}

UpTail == <<91, 65>>
DownTail == <<91, 66>>

\* Arguments the caller gives history_add: "a", "a\n\n", "\n" and a string
\* of LineMax letters, which no entry of the initial capacity can hold.
HistArgs == {<<97>>, <<97, XD_ASCII_LF, XD_ASCII_LF>>, <<XD_ASCII_LF>>, [i \in 1 .. LineMax |-> 97]}

NoAlloc == [save |-> TRUE, load |-> "inplace"]

\* ------------------------------------------------------------------- state

\* What is recorded of the navigation of a read: ups, the number of Up keys
\* dispatched when nothing but Up keys has been dispatched since the read
\* began (-1 otherwise, and no more than the ring's length plus one); line,
\* the line in the input buffer when the last Up left the scratch slot; and
\* state, "saved" or "unsaved" as that Up's save into the scratch slot was
\* done or dropped, with nothing but Up and Down keys dispatched since, and
\* "none" otherwise; scribbled, whether a key of some read since the last
\* history_clear has changed the string of a committed entry.
NoTrack == [ups |-> 0, line |-> <<>>, state |-> "none", scribbled |-> FALSE]

Track(g0, d) ==
    LET up == d.key = "xd_input_handle_up_arrow"
        down == d.key = "xd_input_handle_down_arrow"
        leaves == up /\ g0.xd_history_nav_idx = XD_HISTORY_MAX
                     /\ d.g.xd_history_nav_idx # XD_HISTORY_MAX
        t == g0.nav_track
    IN  [ups |-> IF up /\ t.ups >= 0 THEN Min(t.ups + 1, xd_history_length + 1)
                 ELSE -1,
         line |-> IF leaves THEN Bytes(g0.xd_input_buffer, g0.xd_input_length)
                  ELSE IF up \/ down THEN t.line ELSE <<>>,
         state |-> IF leaves
                   THEN IF "save" \in d.g.alloc_failed THEN "unsaved" ELSE "saved"
                   ELSE IF up \/ down THEN t.state ELSE "none",
         scribbled |-> \/ t.scribbled
                       \/ \E i \in 0 .. XD_HISTORY_MAX - 1 :
                             d.g.xd_history[i].str # g0.xd_history[i].str]

handler_vars == <<xd_tty_win_width, xd_tty_cursor_row, xd_tty_cursor_col,
                  xd_tty_chars_count, xd_input_buffer, xd_input_capacity,
                  xd_input_length, xd_input_cursor, xd_readline_redraw,
                  xd_readline_finished, xd_readline_return, xd_history,
                  xd_history_nav_idx>>
ring_vars == <<xd_history_start_idx, xd_history_end_idx, xd_history_length>>
prompt_vars == <<xd_readline_prompt, xd_readline_prompt_length>>

Init ==
    /\ xd_original_tty_attributes = TtyZero
    /\ tty_columns \in Widths
    /\ xd_tty_win_width = tty_columns
    /\ xd_tty_win_resized = 0
    /\ xd_tty_cursor_row = 1
    /\ xd_tty_cursor_col = 1
    /\ xd_tty_chars_count = 0
    /\ xd_input_capacity = LineMax
    /\ xd_input_buffer = [i \in 0 .. LineMax - 1 |-> IF i = 0 THEN XD_ASCII_NUL ELSE Undef]
    /\ xd_input_length = 0
    /\ xd_input_cursor = 0
    /\ xd_readline_redraw = 0
    /\ xd_readline_finished = 0
    /\ xd_readline_return = "NULL"
    /\ xd_readline_prompt_length = 0
    /\ xd_readline_prompt = NullPtr
    /\ xd_history = [i \in 0 .. XD_HISTORY_MAX |-> EmptyEntry]
    /\ xd_history_nav_idx = XD_HISTORY_MAX
    /\ xd_history_start_idx = 0
    /\ xd_history_end_idx = XD_HISTORY_MAX - 1
    /\ xd_history_length = 0
    /\ pc = "idle"
    /\ tty_attributes \in TtyModes
    /\ out = <<>>
    /\ key = "none"
    /\ result = "none"
    /\ status = 0
    /\ cause = "none"
    /\ entry_attributes = tty_attributes
    /\ oob = FALSE
    /\ alloc_failed = {}
    /\ nav_track = NoTrack
    /\ delivered = 0
    /\ added = <<>>

\* The globals of g become the state.
Apply(g) ==
    /\ xd_tty_win_width' = g.xd_tty_win_width
    /\ xd_tty_cursor_row' = g.xd_tty_cursor_row
    /\ xd_tty_cursor_col' = g.xd_tty_cursor_col
    /\ xd_tty_chars_count' = g.xd_tty_chars_count
    /\ xd_input_buffer' = g.xd_input_buffer
    /\ xd_input_capacity' = g.xd_input_capacity
    /\ xd_input_length' = g.xd_input_length
    /\ xd_input_cursor' = g.xd_input_cursor
    /\ xd_readline_redraw' = g.xd_readline_redraw
    /\ xd_readline_finished' = g.xd_readline_finished
    /\ xd_readline_return' = g.xd_readline_return
    /\ xd_history' = g.xd_history
    /\ xd_history_nav_idx' = g.xd_history_nav_idx
    /\ out' = g.out
    /\ oob' = g.oob
    /\ alloc_failed' = g.alloc_failed
    /\ nav_track' = g.nav_track

\* exit(): the process and its memory are gone.  The variables of the
\* program take the values of a process that has not started, and only the
\* terminal and what is recorded about the run keep theirs.
Exited ==
    /\ pc' = "exited"
    /\ xd_original_tty_attributes' = TtyZero
    /\ xd_tty_win_width' = 0
    /\ xd_tty_win_resized' = 0
    /\ xd_tty_cursor_row' = 1
    /\ xd_tty_cursor_col' = 1
    /\ xd_tty_chars_count' = 0
    /\ xd_input_capacity' = LineMax
    /\ xd_input_buffer' = [i \in 0 .. LineMax - 1 |-> IF i = 0 THEN XD_ASCII_NUL ELSE Undef]
    /\ xd_input_length' = 0
    /\ xd_input_cursor' = 0
    /\ xd_readline_redraw' = 0
    /\ xd_readline_finished' = 0
    /\ xd_readline_return' = "NULL"
    /\ xd_readline_prompt_length' = 0
    /\ xd_readline_prompt' = NullPtr
    /\ xd_history' = [i \in 0 .. XD_HISTORY_MAX |-> EmptyEntry]
    /\ xd_history_nav_idx' = XD_HISTORY_MAX
    /\ xd_history_start_idx' = 0
    /\ xd_history_end_idx' = XD_HISTORY_MAX - 1
    /\ xd_history_length' = 0
    /\ key' = "none"
    /\ out' = <<>>
    /\ result' = "none"
    /\ status' = 0
    /\ oob' = FALSE
    /\ alloc_failed' = {}
    /\ nav_track' = NoTrack
    /\ added' = <<>>
    /\ UNCHANGED <<tty_columns, entry_attributes>>

\* An exit that leaves the terminal as it is.
Fatal_without_restore(c) ==
    /\ tty_attributes' = tty_attributes
    /\ cause' = c
    /\ Exited

\* xd_tty_restore() followed by exit(EXIT_FAILURE), as the write and read
\* wrappers do on failure; tcsetattr itself may fail, and then the process
\* exits with the terminal's attributes as they are.
Fatal(c) ==
    /\ \E restored \in BOOLEAN :
         /\ tty_attributes' = IF restored THEN xd_original_tty_attributes
                              ELSE tty_attributes
         /\ cause' = IF restored THEN c ELSE "restore_failed"
    /\ Exited

\* The handler that gave g has run: either one of its writes failed, or the
\* state is now g and control stands at npc.
Commit(g0, npc, k, c, resized) ==
    \E g \in {g0} :
      \E write_fails \in (IF g.fault THEN {TRUE}
                          ELSE IF g.out = <<>> THEN {FALSE} ELSE BOOLEAN) :
        IF write_fails THEN Fatal("write_failed")
        ELSE /\ Apply(g)
             /\ pc' = npc
             /\ key' = k
             /\ cause' = c
             /\ xd_tty_win_resized' = resized
             /\ UNCHANGED <<ring_vars, prompt_vars, xd_original_tty_attributes,
                            tty_attributes, tty_columns, result, status,
                            entry_attributes, added>>

\* ----------------------------------------------------------------- actions

\* What the terminal has been handed when one write of out was short:
\* write() accepted fewer bytes than requested and returned their number,
\* which is not -1.  A short write of raw bytes keeps the bytes accepted, one
\* at least; a short write of a formatted sequence keeps its parameter.
ShortWrites(o) ==
    UNION {IF o[i].op = "write"
           THEN {[o EXCEPT ![i] = [op |-> "short", arg |-> SubSeq(o[i].arg, 1, n)]] :
                    n \in 1 .. Len(o[i].arg) - 1}
           ELSE {[o EXCEPT ![i] = [op |-> "short", arg |-> o[i].arg]]} :
           i \in 1 .. Len(o)}

\* The handler that gave g has run and one of its writes was short: no
\* wrapper of write() looks at a return value other than -1, and the state is
\* now g with control at npc.
CommitShort(g0, npc, k, c, resized) ==
    \E g \in {g0} :
      /\ ~g.fault
      /\ \E o \in ShortWrites(g.out) :
           /\ Apply([g EXCEPT !.out = o])
           /\ pc' = npc
           /\ key' = k
           /\ cause' = c
           /\ xd_tty_win_resized' = resized
           /\ UNCHANGED <<ring_vars, prompt_vars, xd_original_tty_attributes,
                          tty_attributes, tty_columns, result, status,
                          entry_attributes, added>>

\* The caller assigns xd_readline_prompt.
SetPrompt(p) ==
    /\ UNCHANGED delivered
    /\ pc = "idle"
    /\ xd_readline_prompt # p
    /\ xd_readline_prompt' = p
    /\ UNCHANGED <<handler_vars, ring_vars, xd_readline_prompt_length,
                   xd_tty_win_resized, xd_original_tty_attributes, pc,
                   tty_attributes, tty_columns, out, key, result, status, cause,
                   entry_attributes, oob, alloc_failed, nav_track, added>>

\* The window is resized to w columns and SIGWINCH is delivered:
\* xd_sigwinch_handler runs.
xd_sigwinch_handler(w) ==
    /\ UNCHANGED delivered
    /\ pc # "exited"
    /\ tty_columns' = w
    /\ xd_tty_win_resized' = 1
    /\ UNCHANGED <<handler_vars, ring_vars, prompt_vars,
                   xd_original_tty_attributes, pc, tty_attributes, out, key,
                   result, status, cause, entry_attributes, oob, alloc_failed, nav_track,
                   added>>

\* xd_readline() from its entry to the top of its loop, xd_tty_raw()
\* included; how is "ok", or the call of xd_tty_raw that fails.
xd_readline_enter(how) ==
    /\ UNCHANGED delivered
    /\ pc = "idle"
    /\ IF how # "ok"
       THEN /\ tty_attributes' = tty_attributes
            /\ cause' = "raw_failed"
            /\ Exited
       ELSE /\ xd_readline_prompt_length' =
                   IF ~xd_readline_prompt.null THEN strlen(xd_readline_prompt.str)
                   ELSE xd_readline_prompt_length
            /\ xd_input_cursor' = 0
            /\ xd_input_length' = 0
            /\ xd_input_buffer' = [xd_input_buffer EXCEPT ![0] = XD_ASCII_NUL]
            /\ xd_readline_redraw' = 1
            /\ xd_readline_return' = "buffer"
            /\ xd_readline_finished' = 0
            /\ xd_tty_cursor_row' = 1
            /\ xd_tty_cursor_col' = 1
            /\ xd_tty_chars_count' = 0
            /\ xd_history_nav_idx' = XD_HISTORY_MAX
            /\ xd_original_tty_attributes' = tty_attributes
            /\ tty_attributes' = RawAttributes(tty_attributes)
            /\ pc' = "loop"
            /\ cause' = "none"
            /\ entry_attributes' = tty_attributes
            /\ result' = "none"
            /\ key' = "none"
            /\ out' = <<>>
            /\ oob' = FALSE
            /\ alloc_failed' = {}
            /\ nav_track' = [NoTrack EXCEPT !.scribbled = nav_track.scribbled]
            /\ UNCHANGED <<xd_tty_win_width, xd_input_capacity, xd_history,
                           ring_vars, xd_readline_prompt, xd_tty_win_resized,
                           tty_columns, status, added>>

\* A main loop that never grows the input buffer.
GrowInputBuffer_never(g, how) == g

\* The growth of the input buffer in the main loop; how is what realloc
\* answers.  The result's finished is 2 when the loop is left by break.
GrowInputBuffer(g, how) ==
    IF g.xd_input_length # g.xd_input_capacity - 1 THEN g
    ELSE IF how = "fail" \/ g.xd_input_capacity * 2 > MaxCap
    THEN [g EXCEPT !.alloc_failed = {"grow"}]
    ELSE [g EXCEPT !.xd_input_buffer = Realloc(g.xd_input_buffer, g.xd_input_capacity * 2),
                   !.xd_input_capacity = g.xd_input_capacity * 2,
                   !.xd_readline_return = "buffer"]

\* One round of the main loop up to its read(): resize, redraw, growth.
LoopPrelude(g, resized, ws_col, ioctl_ok, how) ==
    LET g1 == IF resized # 0 THEN xd_tty_screen_resize(g, ws_col, ioctl_ok) ELSE g
        g2 == IF g1.xd_readline_redraw # 0
              THEN [xd_tty_input_redraw(g1) EXCEPT !.xd_readline_redraw = 0]
              ELSE g1
    IN  GrowInputBuffer(g2, how)

xd_readline_loop(ioctl_ok, how) ==
    /\ UNCHANGED delivered
    /\ pc = "loop"
    /\ xd_readline_finished = 0
    /\ \E g \in {LoopPrelude(G, xd_tty_win_resized, tty_columns, ioctl_ok, how)} :
           IF "grow" \in g.alloc_failed
           THEN Commit(g, "end", "none", "alloc_failed", 0)
           ELSE Commit(g, "read", "none", cause, 0)

\* The same round of the main loop in two steps, for a signal that arrives
\* between them.  The first is the test of xd_tty_win_resized that finds it
\* set, and the call of xd_tty_screen_resize with its width query.
xd_readline_resize_query(ioctl_ok) ==
    /\ UNCHANGED delivered
    /\ pc = "loop"
    /\ xd_readline_finished = 0
    /\ xd_tty_win_resized # 0
    /\ Commit(xd_tty_screen_resize(G, tty_columns, ioctl_ok), "resized", "none",
              cause, xd_tty_win_resized)

\* The second is the assignment xd_tty_win_resized = 0 and the rest of the
\* round up to read().
xd_readline_resize_clear(how) ==
    /\ UNCHANGED delivered
    /\ pc = "resized"
    /\ \E g \in {LoopPrelude(G, 0, tty_columns, TRUE, how)} :
           IF "grow" \in g.alloc_failed
           THEN Commit(g, "end", "none", "alloc_failed", 0)
           ELSE Commit(g, "read", "none", cause, 0)

\* read() delivers chr (and, to the decoder, tail), and xd_input_handler runs.
xd_readline_read(chr, tail, a) ==
    /\ pc = "read"
    /\ \E d \in {xd_input_handler(G, chr, tail, a)} :
           Commit([d.g EXCEPT !.nav_track = Track(G, d)], "loop", d.key,
                  IF d.g.xd_readline_finished = 0 THEN cause
                  ELSE IF d.key = "xd_input_handle_enter" THEN "enter" ELSE "eot",
                  xd_tty_win_resized)

\* A round of the main loop, and the dispatch of a byte, in which one write
\* was short.
xd_readline_loop_short_write ==
    /\ UNCHANGED delivered
    /\ pc = "loop"
    /\ xd_readline_finished = 0
    /\ \E g \in {LoopPrelude(G, xd_tty_win_resized, tty_columns, TRUE, "inplace")} :
           /\ "grow" \notin g.alloc_failed
           /\ CommitShort(g, "read", "none", cause, 0)

xd_readline_read_short_write(chr) ==
    /\ delivered < MaxKeys
    /\ delivered' = delivered + 1
    /\ pc = "read"
    /\ \E d \in {xd_input_handler(G, chr, <<>>, NoAlloc)} :
           CommitShort([d.g EXCEPT !.nav_track = Track(G, d)], "loop", d.key,
                       IF d.g.xd_readline_finished = 0 THEN cause
                       ELSE IF d.key = "xd_input_handle_enter" THEN "enter" ELSE "eot",
                       xd_tty_win_resized)

\* read() returns 0: the input stream is closed.
xd_readline_eof ==
    /\ UNCHANGED delivered
    /\ pc = "read"
    /\ xd_readline_finished' = 1
    /\ xd_readline_return' = "NULL"
    /\ pc' = "loop"
    /\ cause' = "eof"
    /\ key' = "none"
    /\ out' = <<>>
    /\ UNCHANGED <<xd_tty_win_width, xd_tty_cursor_row, xd_tty_cursor_col,
                   xd_tty_chars_count, xd_input_buffer, xd_input_capacity,
                   xd_input_length, xd_input_cursor, xd_readline_redraw,
                   xd_history, xd_history_nav_idx, ring_vars, prompt_vars,
                   xd_tty_win_resized, xd_original_tty_attributes,
                   tty_attributes, tty_columns, result, status,
                   entry_attributes, oob, alloc_failed, nav_track, added>>

\* read() returns -1.
xd_readline_read_fails ==
    /\ UNCHANGED delivered
    /\ pc = "read"
    /\ Fatal("read_failed")

\* SIGWINCH has been delivered while read() was blocked, the handler has run,
\* and read() returns -1 with EINTR (a handler installed without SA_RESTART):
\* the loop takes the branch of a failed read.
xd_readline_read_interrupted ==
    /\ UNCHANGED delivered
    /\ pc = "read"
    /\ xd_tty_win_resized = 1
    /\ Fatal("read_interrupted")

\* After the loop: the final LF, xd_tty_restore() and the return.
xd_readline_leave ==
    /\ UNCHANGED delivered
    /\ \/ pc = "loop" /\ xd_readline_finished # 0
       \/ pc = "end"
    /\ \E g \in {IF xd_tty_cursor_col # 1
                THEN xd_tty_write(G, Str(<<XD_ASCII_LF>>), 1) ELSE G} :
           \E write_fails \in (IF g.out = <<>> THEN {FALSE} ELSE BOOLEAN) :
             IF write_fails THEN Fatal("write_failed")
             ELSE \E restored \in BOOLEAN :
                    IF ~restored
                    THEN /\ tty_attributes' = tty_attributes
                         /\ cause' = "restore_failed"
                         /\ Exited
                    ELSE /\ tty_attributes' = xd_original_tty_attributes
                         /\ pc' = "idle"
                         /\ result' = xd_readline_return
                         /\ out' = g.out
                         /\ key' = "none"
                         /\ UNCHANGED <<handler_vars, ring_vars, prompt_vars,
                                        xd_tty_win_resized,
                                        xd_original_tty_attributes, tty_columns,
                                        status, cause, entry_attributes, oob,
                                        alloc_failed, nav_track, added>>

\* The end of xd_readline in two steps.  The first is the test of the cursor
\* column and the write of the final LF.
xd_readline_final_lf ==
    /\ UNCHANGED delivered
    /\ \/ pc = "loop" /\ xd_readline_finished # 0
       \/ pc = "end"
    /\ Commit(IF xd_tty_cursor_col # 1
              THEN xd_tty_write(G, Str(<<XD_ASCII_LF>>), 1) ELSE G,
              "restore", "none", cause, xd_tty_win_resized)

\* The second is xd_tty_restore() and the return.
xd_readline_restore_return ==
    /\ UNCHANGED delivered
    /\ pc = "restore"
    /\ \E restored \in BOOLEAN :
         IF ~restored
         THEN /\ tty_attributes' = tty_attributes
              /\ cause' = "restore_failed"
              /\ Exited
         ELSE /\ tty_attributes' = xd_original_tty_attributes
              /\ pc' = "idle"
              /\ result' = xd_readline_return
              /\ out' = <<>>
              /\ key' = "none"
              /\ UNCHANGED <<handler_vars, ring_vars, prompt_vars,
                             xd_tty_win_resized, xd_original_tty_attributes,
                             tty_columns, status, cause, entry_attributes, oob,
                             alloc_failed, nav_track, added>>

\* The caller's history calls.
HistoryUpdate(r) ==
    /\ xd_history' = r.xd_history
    /\ xd_history_nav_idx' = r.xd_history_nav_idx
    /\ xd_history_start_idx' = r.xd_history_start_idx
    /\ xd_history_end_idx' = r.xd_history_end_idx
    /\ xd_history_length' = r.xd_history_length

history_add(str, alloc_ok) ==
    /\ UNCHANGED delivered
    /\ pc = "idle"
    /\ Len(added) < MaxAdds
    /\ LET r == xd_readline_history_add(Ring, str, alloc_ok)
       IN  /\ HistoryUpdate(r)
           /\ status' = r.ret
           /\ added' = IF r.ret = 0 THEN Append(added, str.str) ELSE added
    /\ key' = "history_add"
    /\ out' = <<>>
    /\ UNCHANGED <<xd_tty_win_width, xd_tty_cursor_row, xd_tty_cursor_col,
                   xd_tty_chars_count, xd_input_buffer, xd_input_capacity,
                   xd_input_length, xd_input_cursor, xd_readline_redraw,
                   xd_readline_finished, xd_readline_return, prompt_vars,
                   xd_tty_win_resized, xd_original_tty_attributes, pc,
                   tty_attributes, tty_columns, result, cause,
                   entry_attributes, oob, alloc_failed, nav_track>>

history_clear ==
    /\ UNCHANGED delivered
    /\ pc = "idle"
    /\ HistoryUpdate(xd_readline_history_clear(Ring))
    /\ added' = <<>>
    /\ nav_track' = NoTrack
    /\ key' = "history_clear"
    /\ out' = <<>>
    /\ UNCHANGED <<xd_tty_win_width, xd_tty_cursor_row, xd_tty_cursor_col,
                   xd_tty_chars_count, xd_input_buffer, xd_input_capacity,
                   xd_input_length, xd_input_cursor, xd_readline_redraw,
                   xd_readline_finished, xd_readline_return, prompt_vars,
                   xd_tty_win_resized, xd_original_tty_attributes, pc,
                   tty_attributes, tty_columns, result, status, cause,
                   entry_attributes, oob, alloc_failed>>

\* history_print: out is the list of the strings printed.
history_print ==
    /\ UNCHANGED delivered
    /\ pc = "idle"
    /\ out' = xd_readline_history_print(Ring)
    /\ key' = "history_print"
    /\ UNCHANGED <<handler_vars, ring_vars, prompt_vars, xd_tty_win_resized,
                   xd_original_tty_attributes, pc, tty_attributes, tty_columns,
                   result, status, cause, entry_attributes, oob, alloc_failed, nav_track,
                   added>>

\* ---------------------------------------------------------- specifications

\* A byte of bytes arrives; after ESC, the bytes of one of tails follow it.
ReadStep(bytes, tails) ==
    \E chr \in bytes :
      \E tail \in (IF chr = XD_ASCII_ESC THEN tails ELSE {<<>>}) :
        \E a \in (IF chr = XD_ASCII_ESC /\ tail \in {UpTail, DownTail}
                  THEN AllocOutcomes ELSE {NoAlloc}) :
          xd_readline_read(chr, tail, a)

\* The same, for no more than MaxKeys bytes in all.
BoundedReadStep(bytes, tails) ==
    /\ delivered < MaxKeys
    /\ delivered' = delivered + 1
    /\ ReadStep(bytes, tails)

\* The editor: reads with every key, resizes and every failure of the
\* terminal, on an empty history.
Next ==
    \/ \E w \in Widths : xd_sigwinch_handler(w)
    \/ \E how \in {"ok", "tcgetattr", "tcsetattr"} : xd_readline_enter(how)
    \/ \E ioctl_ok \in BOOLEAN, how \in {"inplace", "moved", "fail"} :
          xd_readline_loop(ioctl_ok, how)
    \/ ReadStep(InputBytes, EscTails) /\ UNCHANGED delivered
    \/ xd_readline_eof
    \/ xd_readline_read_fails
    \/ xd_readline_read_interrupted
    \/ xd_readline_leave

Spec == Init /\ [][Next]_vars

\* The history ring alone: the caller's adds, clears and prints.
NextHist ==
    \/ \E s \in HistArgs, alloc_ok \in BOOLEAN : history_add(Str(s), alloc_ok)
    \/ \E alloc_ok \in BOOLEAN : history_add(NullPtr, alloc_ok)
    \/ history_clear
    \/ history_print

InitOne == Init /\ tty_columns = 3 /\ tty_attributes = TtyCooked

SpecHist == InitOne /\ [][NextHist]_vars

\* Navigation: the caller fills the history, then reads with the keys 'a',
\* Up, Down and Enter, and may clear the history between two reads.
NavArgs == {<<97>>, [i \in 1 .. LineMax |-> 97]}
NavBytes == {97, XD_ASCII_LF, XD_ASCII_ESC}
NavTails == {UpTail, DownTail}

NextNav ==
    \/ delivered = 0 /\ \E s \in NavArgs : history_add(Str(s), TRUE)
    \/ history_clear
    \/ xd_readline_enter("ok")
    \/ \E how \in {"inplace", "moved", "fail"} : xd_readline_loop(TRUE, how)
    \/ BoundedReadStep(NavBytes, NavTails)
    \/ xd_readline_leave

SpecNav == InitOne /\ [][NextNav]_vars

\* The screen: the caller sets and clears the prompt between reads, the
\* window is resized, and the reads are given the keys that write, move,
\* remove and clear.
ScreenBytes == {97, XD_ASCII_SOH, XD_ASCII_STX, XD_ASCII_ENQ, XD_ASCII_ACK,
                XD_ASCII_BS, XD_ASCII_FF, XD_ASCII_LF}

NextScreen ==
    \/ \E p \in Prompts : SetPrompt(p)
    \/ \E w \in Widths : xd_sigwinch_handler(w)
    \/ xd_readline_enter("ok")
    \/ \E ioctl_ok \in BOOLEAN, how \in {"inplace", "fail"} :
          xd_readline_loop(ioctl_ok, how)
    \/ ReadStep(ScreenBytes, {<<>>}) /\ UNCHANGED delivered
    \/ xd_readline_leave

SpecScreen == InitOne /\ [][NextScreen]_vars

\* The keys that stop at a boundary: the caller adds "a" to the history, then
\* reads with 'a', the keys that move or remove towards either end of the
\* line, Up and Down, and Ctrl+D.
KeysArgs == {<<97>>}
KeysBytes == {97, XD_ASCII_STX, XD_ASCII_EOT, XD_ASCII_ACK, XD_ASCII_BS,
              XD_ASCII_VT, XD_ASCII_NAK, XD_ASCII_ESC, XD_ASCII_DEL}
KeysTails == {UpTail, DownTail, <<91, 67>>, <<91, 68>>, <<91, 51, 126>>,
              <<102>>, <<98>>, <<100>>, <<127>>}

NextKeys ==
    \/ delivered = 0 /\ \E s \in KeysArgs : history_add(Str(s), TRUE)
    \/ xd_readline_enter("ok")
    \/ xd_readline_loop(TRUE, "inplace")
    \/ BoundedReadStep(KeysBytes, KeysTails)
    \/ xd_readline_leave

SpecKeys == InitOne /\ [][NextKeys]_vars

\* The decoder: reads of MaxKeys keys in all, with 'a', Enter and ESC, and
\* after ESC every stream that follows a path of the bindings, leaves one by
\* any byte, or stops.
\* DecodeAlphabet is every byte of the bindings, and NUL and 'x'.
DecodePrefixes ==
    UNION {{SubSeq(t, 1, n) : n \in 0 .. Len(t) - 1} : t \in BindingTails}
DecodeAlphabet ==
    UNION {{t[n] : n \in 1 .. Len(t)} : t \in BindingTails} \cup {XD_ASCII_NUL, 120}
DecodeTails ==
    DecodePrefixes
        \cup {p \o <<c>> : p \in DecodePrefixes, c \in DecodeAlphabet}
        \cup {t \o <<120>> : t \in BindingTails}
DecodeBytes == {97, XD_ASCII_LF, XD_ASCII_ESC}

NextDecode ==
    \/ xd_readline_enter("ok")
    \/ xd_readline_loop(TRUE, "inplace")
    \/ BoundedReadStep(DecodeBytes, DecodeTails)
    \/ xd_readline_leave

SpecDecode == InitOne /\ [][NextDecode]_vars

\* ------------------------------------------------------------------ claims

InRead == pc \in {"loop", "read", "end"}

\* C1.  When xd_readline ends because Enter was dispatched, it returns the
\* input buffer, which holds the edited text followed by one LF at index
\* L-1 and NUL at index L.  The statement as claimed: it fails where the
\* pointer returned is the address of a block that a history load has
\* released (see xd_input_buffer_load_from_history).
C1_EnterReturnsTheInputBuffer ==
    (pc = "idle" /\ cause = "enter") =>
        /\ result = "buffer"
        /\ xd_input_length >= 1
        /\ xd_input_buffer[xd_input_length - 1] = XD_ASCII_LF
        /\ xd_input_buffer[xd_input_length] = XD_ASCII_NUL

C3_SentinelAtL ==
    InRead => xd_input_buffer[xd_input_length] = XD_ASCII_NUL

C5_NullOnEotOrEof ==
    /\ (pc = "idle" /\ result # "none") =>
           (result = "NULL" <=> cause \in {"eot", "eof"})
    /\ (pc = "loop" /\ cause = "eot") =>
           /\ key = "xd_input_handle_ctrl_d"
           /\ xd_input_length = 0
           /\ xd_readline_return = "NULL"
    /\ (pc = "read" /\ xd_input_length > 0) =>
           LET d == xd_input_handler(G, XD_ASCII_EOT, <<>>, NoAlloc)
               e == xd_input_handler(G, XD_ASCII_ESC, <<91, 51, 126>>, NoAlloc)
           IN  /\ d.key = "xd_input_handle_ctrl_d"
               /\ e.key = "xd_input_handle_delete"
               /\ d.g = e.g
               /\ d.g.xd_readline_finished = 0

\* C5: a read that held a byte was ended by end of input and gave NULL.
C5_Witness ==
    /\ pc = "idle"
    /\ result = "NULL"
    /\ cause = "eof"
    /\ xd_input_length > 0

\* The strings history_print would print if the ring held the adds since
\* the last clear: the last XD_HISTORY_MAX of them at most, oldest first,
\* each without one trailing LF.
LastAdds ==
    LET n == Len(added)
        len == IF n < XD_HISTORY_MAX THEN n ELSE XD_HISTORY_MAX
        Stripped(s) == IF Len(s) > 0 /\ s[Len(s)] = XD_ASCII_LF
                       THEN SubSeq(s, 1, Len(s) - 1) ELSE s
    IN  [i \in 1 .. len |-> Stripped(added[n - len + i])]

\* C6.  After any sequence of adds, len is the smaller of the number of
\* successful adds and XD_HISTORY_MAX, and the entries history_print
\* enumerates are the last len strings added, in the order added, each
\* without one trailing LF, duplicates kept.
C6_RingHoldsTheLastAdds ==
    /\ xd_history_length = Len(LastAdds)
    /\ xd_readline_history_print(Ring) = LastAdds
    /\ \A i \in 0 .. XD_HISTORY_MAX - 1 :
         xd_history[i].length = Len(xd_history[i].str)

\* C6: more adds than the ring holds, the last two of them the same string,
\* and one of those kept an argument that ended with two LFs.
C6_Witness ==
    /\ Len(added) > XD_HISTORY_MAX
    /\ xd_history_start_idx # 0
    /\ added[Len(added)] = added[Len(added) - 1]
    /\ \E i \in 2 .. Len(added) : added[i] = <<97, XD_ASCII_LF, XD_ASCII_LF>>

C9_FailedAddChangesNothing ==
    /\ status \in {0, -1}
    /\ pc = "idle" =>
         \A str \in {NullPtr} \cup {Str(s) : s \in HistArgs}, alloc_ok \in BOOLEAN :
             LET r == xd_readline_history_add(Ring, str, alloc_ok)
                 slot == xd_history[(xd_history_end_idx + 1) % XD_HISTORY_MAX]
                 n == Len(str.str)
                 stored == IF n > 0 /\ str.str[n] = XD_ASCII_LF THEN n - 1 ELSE n
                 fails == str.null \/ (~alloc_ok /\ stored > slot.capacity - 1)
             IN  /\ r.ret = IF fails THEN -1 ELSE 0
                 /\ fails => r = [Ring EXCEPT !.ret = -1]
    /\ (key = "history_add" /\ status = -1) =>
         xd_readline_history_print(Ring) = LastAdds

\* C9: an add has failed on a ring that holds entries.
C9_Witness ==
    /\ key = "history_add"
    /\ status = -1
    /\ xd_history_length > 1
    /\ xd_readline_history_print(Ring) = LastAdds

\* C10.  history_clear sets the length of each of the XD_HISTORY_MAX + 1
\* slots to zero, start to 0, end to XD_HISTORY_MAX - 1, len to 0 and nav to
\* XD_HISTORY_MAX; with len = 0, Up and Down ring the bell and change
\* nothing; the adds that follow a clear fill the ring as they fill a new
\* one.
C10_ClearResetsTheRing ==
    /\ key = "history_clear" =>
         /\ \A i \in 0 .. XD_HISTORY_MAX :
              xd_history[i].length = 0 /\ xd_history[i].str = <<>>
         /\ xd_history_start_idx = 0
         /\ xd_history_end_idx = XD_HISTORY_MAX - 1
         /\ xd_history_length = 0
         /\ xd_history_nav_idx = XD_HISTORY_MAX
    /\ (pc = "read" /\ xd_history_length = 0) =>
         \A tail \in {UpTail, DownTail}, a \in AllocOutcomes :
             xd_input_handler(G, XD_ASCII_ESC, tail, a).g = xd_tty_bell(G)
    /\ ~nav_track.scribbled =>
         /\ xd_history_length = Len(LastAdds)
         /\ xd_readline_history_print(Ring) = LastAdds

\* C10: a ring whose slots have grown is empty again, and an Up has rung
\* the bell.
C10_Witness ==
    /\ pc = "loop"
    /\ key = "xd_input_handle_up_arrow"
    /\ xd_history_length = 0
    /\ out = xd_tty_bell(G).out
    /\ \E i \in 0 .. XD_HISTORY_MAX : xd_history[i].capacity > LineMax

\* C11.  The prompt length is recomputed at the start of every read: 0 when
\* the prompt pointer is null at the call, the byte length of the prompt
\* otherwise.  The statement as claimed: it fails in a read entered with a
\* null prompt after a read that had one, because xd_readline assigns the
\* length only when the pointer is not null.
C11_PromptLengthRecomputed ==
    InRead =>
        xd_readline_prompt_length =
            IF xd_readline_prompt.null THEN 0 ELSE strlen(xd_readline_prompt.str)

\* C12.  Whenever xd_readline returns a non-null result, the pointer returned
\* is the address of the input buffer as it is at the return.  The statement
\* as claimed: it fails after a history load has grown the buffer and realloc
\* has moved it, because xd_input_buffer_load_from_history leaves
\* xd_readline_return at the address of the released block.
C12_ReturnsTheCurrentBuffer ==
    (pc = "idle" /\ result \notin {"none", "NULL"}) => result = "buffer"

\* A step of the main loop in which read() has delivered a byte and
\* xd_input_handler has dispatched it.
ByteDispatched == pc = "read" /\ pc' = "loop" /\ cause' # "eof"

\* C13.  A resize signalled during a read is reconciled, and the line redrawn
\* once, before the next byte is dispatched: no byte is dispatched while
\* xd_tty_win_resized is set.  The statement as claimed: it fails when the
\* signal arrives after the loop has tested the flag, read() being about to
\* block or blocked; the byte that read() then delivers is dispatched first.
C13_ResizeReconciledBeforeDispatch ==
    [][ByteDispatched => xd_tty_win_resized = 0]_vars

\* C14.  A read() of the main loop that SIGWINCH interrupts, and that returns
\* -1 with EINTR, is not an error: the read goes on and the process is not
\* terminated.  The statement as claimed: it fails because the loop takes
\* every -1 of read() as fatal, whatever errno says.
C14_InterruptedReadIsRetried ==
    pc = "exited" => cause # "read_interrupted"

\* The handlers that ring at the left end, and at the right end, of the line.
LeftEndKeys == {"xd_input_handle_ctrl_b", "xd_input_handle_left_arrow",
                "xd_input_handle_ctrl_h", "xd_input_handle_backspace",
                "xd_input_handle_ctrl_u", "xd_input_handle_alt_b",
                "xd_input_handle_alt_backspace"}
RightEndKeys == {"xd_input_handle_ctrl_f", "xd_input_handle_right_arrow",
                 "xd_input_handle_delete", "xd_input_handle_ctrl_k",
                 "xd_input_handle_alt_f", "xd_input_handle_alt_d"}

\* The key being dispatched violates a boundary in the state it finds.
AtBoundary ==
    \/ key' \in LeftEndKeys /\ xd_input_cursor = 0
    \/ key' \in RightEndKeys /\ xd_input_cursor = xd_input_length
    \/ /\ key' = "xd_input_handle_ctrl_d"
       /\ xd_input_length > 0
       /\ xd_input_cursor = xd_input_length
    \/ /\ key' = "xd_input_handle_up_arrow"
       /\ (xd_history_length = 0 \/ xd_history_nav_idx = xd_history_start_idx)
    \/ /\ key' = "xd_input_handle_down_arrow"
       /\ (xd_history_length = 0 \/ xd_history_nav_idx = XD_HISTORY_MAX)

\* C15.  Every key that violates a boundary writes one BEL and nothing else,
\* and leaves B, C, L, P, R, K, N, the redraw and finished flags, the result,
\* nav and every history slot as they were.
C15_BoundaryKeysOnlyRing ==
    [][(ByteDispatched /\ AtBoundary) =>
          /\ out' = <<Raw(<<XD_ASCII_BEL>>)>>
          /\ UNCHANGED <<handler_vars, ring_vars>>]_vars

\* C15: with entries in the history and a line of two bytes, an Up at the
\* oldest entry has rung the bell.
C15_Witness ==
    /\ pc = "loop"
    /\ key = "xd_input_handle_up_arrow"
    /\ out = <<Raw(<<XD_ASCII_BEL>>)>>
    /\ xd_history_length > 1
    /\ xd_history_nav_idx = xd_history_start_idx
    /\ xd_input_length > 0

\* The binding table in another order: turned by k places, turned around, or
\* with the bindings j and j + 1 exchanged.
Rotated(table, k) == [i \in 1 .. Len(table) |-> table[((i - 1 + k) % Len(table)) + 1]]
Reversed(table) == [i \in 1 .. Len(table) |-> table[Len(table) + 1 - i]]
Swapped(table, j) ==
    [i \in 1 .. Len(table) |->
        IF i = j THEN table[j + 1] ELSE IF i = j + 1 THEN table[j] ELSE table[i]]

Reordered ==
    {Rotated(xd_esc_seq_bindings, k) : k \in 0 .. xd_esc_seq_bindings_length - 1}
        \cup {Reversed(Rotated(xd_esc_seq_bindings, k)) :
                 k \in 0 .. xd_esc_seq_bindings_length - 1}
        \cup {Swapped(xd_esc_seq_bindings, j) : j \in 1 .. xd_esc_seq_bindings_length - 1}

\* What the bindings, as a set, say of the bytes staged after ESC: the binding
\* they are equal to, or that they are a strict prefix of some binding.
BoundTo(s) ==
    {i \in 1 .. xd_esc_seq_bindings_length : xd_esc_seq_bindings[i].sequence = s}
StrictPrefix(s) ==
    \E i \in 1 .. xd_esc_seq_bindings_length :
        /\ Len(s) < Len(xd_esc_seq_bindings[i].sequence)
        /\ SubSeq(xd_esc_seq_bindings[i].sequence, 1, Len(s)) = s

\* The outcome the bindings prescribe for the stream tail after the bytes
\* staged: the action of the binding matched, reading on after a strict
\* prefix, nothing once the stream stops, and a discard otherwise.
RECURSIVE Prescribed(_, _, _, _)
Prescribed(g, staged, tail, a) ==
    IF tail = <<>> THEN Dispatched(g, "none", staged)
    ELSE LET s == Append(staged, Head(tail))
         IN  IF BoundTo(s) # {}
             THEN LET h == xd_esc_seq_bindings[CHOOSE i \in BoundTo(s) : TRUE].handler
                  IN  Dispatched(CallHandler(h, g, a), h, s)
             ELSE IF StrictPrefix(s) THEN Prescribed(g, s, Tail(tail), a)
             ELSE Dispatched(g, "none", s)

\* One round of the decoder gives, in every order of the table, the action of
\* the same binding, or no action and the same is_valid_prefix.
ScanIgnoresTableOrder ==
    \A tail \in DecodeTails \ {<<>>}, table \in Reordered :
        LET staged == <<XD_ASCII_ESC>> \o tail
            scan == ScanBindings(xd_esc_seq_bindings, staged, 1, FALSE)
            other == ScanBindings(table, staged, 1, FALSE)
        IN  IF scan.match # 0
            THEN /\ other.match # 0
                 /\ table[other.match] = xd_esc_seq_bindings[scan.match]
            ELSE other = scan

\* C16.  For every stream of bytes after ESC the decoder invokes the action
\* of the binding the bytes are equal to, reads on while they are a strict
\* prefix of a binding, and otherwise drops all of them, the last one read
\* included, and changes nothing; the action invoked and the number of bytes
\* consumed are the same in every order of the binding table.  Each round of
\* the decoder is compared over every stream and every order of Reordered;
\* the whole decoder, over the streams that end in a binding, stop inside
\* one or are discarded, in three orders.
C16_DecoderIgnoresTableOrder ==
    /\ ScanIgnoresTableOrder
    /\ pc = "read" =>
         \A tail \in DecodeTails :
             LET d == xd_input_handle_escape_sequence(G, tail, NoAlloc)
             IN  /\ d = Prescribed(G, <<XD_ASCII_ESC>>, tail, NoAlloc)
                 /\ d.key = "none" => d.g = G
                 /\ tail \in BindingTails \cup DecodePrefixes
                              \cup {<<120>>, <<91, 120>>, <<91, 51, 59, 65>>} =>
                        \A table \in {Reversed(xd_esc_seq_bindings),
                                     Rotated(xd_esc_seq_bindings, 1),
                                     Swapped(xd_esc_seq_bindings, 7)} :
                            DecodeLoop(table, G, <<XD_ASCII_ESC>>, tail, NoAlloc) = d

\* C16: the six bytes of Ctrl+Delete have been decoded and its action has
\* removed a word the cursor stood before.
C16_Witness ==
    /\ pc = "loop"
    /\ key = "xd_input_handle_ctrl_delete"
    /\ xd_readline_redraw = 1
    /\ xd_input_length = 0
    /\ xd_input_capacity > LineMax

\* The screen model of g is well formed: R >= 1 and 1 <= K <= W, which is to
\* say R = floor(F / W) + 1 and K = (F mod W) + 1 for the flat position
\* F = (R - 1) * W + (K - 1) >= 0.
ScreenOK(g) ==
    /\ g.xd_tty_win_width >= 1
    /\ g.xd_tty_cursor_row >= 1
    /\ g.xd_tty_cursor_col >= 1
    /\ g.xd_tty_cursor_col <= g.xd_tty_win_width
    /\ FlatPos(g) >= 0
    /\ g.xd_tty_cursor_row = (FlatPos(g) \div g.xd_tty_win_width) + 1
    /\ g.xd_tty_cursor_col = (FlatPos(g) % g.xd_tty_win_width) + 1

\* The number of rows n + 1 cells take at width w: the ceiling of (n + 1) / w.
RowsOf(n, w) == CHOOSE r \in 1 .. n + 1 : r * w >= n + 1 /\ (r - 1) * w < n + 1

\* The number of rows a handler has blanked.
RowsBlanked(g) == Cardinality({i \in DOMAIN g.out : g.out[i].op = "LINE_CLR"})

\* The screen after xd_tty_input_clear is run on g: empty, the cursor at the
\* origin, and every row of the footprint blanked.
ClearedFrom(g) ==
    LET c == xd_tty_input_clear([g EXCEPT !.out = <<>>])
    IN  /\ ScreenOK(c)
        /\ c.xd_tty_chars_count = 0
        /\ c.xd_tty_cursor_row = 1
        /\ c.xd_tty_cursor_col = 1
        /\ RowsBlanked(c) = RowsOf(g.xd_tty_chars_count, g.xd_tty_win_width)

\* The stages of xd_tty_input_redraw run on g.
RedrawStages(g) ==
    LET g1 == xd_tty_input_clear(g)
        g2 == xd_tty_write_track(g1, xd_readline_prompt, xd_readline_prompt_length)
        g3 == xd_tty_write_track(g2, Str(Bytes(g.xd_input_buffer, g.xd_input_length)),
                                 g.xd_input_length)
    IN  <<g1, g2, g3, xd_tty_input_redraw(g)>>

\* C17.  After every screen primitive R >= 1 and 1 <= K <= W, with R and K the
\* row and the column of a flat position F >= 0; and after the footprint is
\* cleared, from any state of a read, N = 0 and R = K = 1, the rows blanked
\* being the ceiling of (N + 1) / W for the N before.  The states between two
\* steps are those after the primitive a key runs, after Ctrl+L and after the
\* whole redraw; the stages inside a redraw, with and without a resize
\* reconciled before it, are looked at one by one.
C17_ScreenModelWellFormed ==
    /\ pc # "exited" => ScreenOK(G)
    /\ InRead =>
         /\ ClearedFrom(G)
         /\ \A ioctl_ok \in BOOLEAN :
              LET g == xd_tty_screen_resize(G, tty_columns, ioctl_ok)
                  stages == RedrawStages(g)
              IN  /\ ScreenOK(g)
                  /\ ClearedFrom(g)
                  /\ \A n \in 1 .. 4 : ScreenOK(stages[n])
    /\ pc = "read" =>
         /\ ScreenOK(xd_tty_write_track(G, Str(<<97>>), 1))
         /\ xd_input_cursor > 0 =>
              ScreenOK(xd_tty_cursor_move_left_wrap(G, xd_input_cursor))
         /\ xd_input_cursor < xd_input_length =>
              ScreenOK(xd_tty_cursor_move_right_wrap(G, xd_input_length - xd_input_cursor))

\* C17: behind a prompt, a redraw has blanked a footprint of three rows and
\* left the cursor in the second row, before the end of the line.
C17_Witness ==
    /\ pc = "read"
    /\ xd_readline_prompt_length > 0
    /\ RowsBlanked([out |-> out]) >= 3
    /\ xd_tty_cursor_row = 2
    /\ xd_input_cursor < xd_input_length

\* C18.  A redraw followed at once by a second redraw leaves R, K and N after
\* the second as they were after the first, and neither redraw changes P,
\* L, C or a byte of B, nor anything else but the screen model.
C18_RedrawIsIdempotent ==
    InRead =>
        LET first == xd_tty_input_redraw(G)
            second == xd_tty_input_redraw([first EXCEPT !.out = <<>>])
        IN  /\ second.xd_tty_cursor_row = first.xd_tty_cursor_row
            /\ second.xd_tty_cursor_col = first.xd_tty_cursor_col
            /\ second.xd_tty_chars_count = first.xd_tty_chars_count
            /\ first = [G EXCEPT !.xd_tty_cursor_row = first.xd_tty_cursor_row,
                                 !.xd_tty_cursor_col = first.xd_tty_cursor_col,
                                 !.xd_tty_chars_count = first.xd_tty_chars_count,
                                 !.out = first.out,
                                 !.fault = first.fault]
            /\ second = [first EXCEPT !.out = second.out]

\* C18: a redraw has just drawn a prompt and a line of two bytes, the cursor
\* at the start of the line, and one more redraw would leave the screen model
\* as it is.
C18_Witness ==
    /\ pc = "read"
    /\ RowsBlanked([out |-> out]) >= 1
    /\ xd_readline_prompt_length > 0
    /\ xd_input_length = 2
    /\ xd_input_cursor = 0
    /\ LET again == xd_tty_input_redraw(G)
       IN  /\ again.xd_tty_cursor_row = xd_tty_cursor_row
           /\ again.xd_tty_cursor_col = xd_tty_cursor_col
           /\ again.xd_tty_chars_count = xd_tty_chars_count

\* C19.  Reconciling a resize to any width W' >= 1 that ioctl reports keeps
\* the flat position F = (R - 1) * W + (K - 1) of the cursor: it sets
\* R' = floor(F / W') + 1, K' = (F mod W') + 1 and W to W', marks a redraw
\* pending, and changes nothing else, B, L, P and N included; the redraw that
\* follows ends with the cursor at the flat position Lp + P under W'.
C19_ResizeKeepsFlatPosition ==
    InRead =>
        \A w \in Widths \cup {1, 5} :
            LET F == FlatPos(G)
                g == xd_tty_screen_resize(G, w, TRUE)
                drawn == xd_tty_input_redraw(g)
                at == xd_readline_prompt_length + xd_input_cursor
            IN  /\ g = [G EXCEPT !.xd_tty_win_width = w,
                                 !.xd_tty_cursor_row = (F \div w) + 1,
                                 !.xd_tty_cursor_col = (F % w) + 1,
                                 !.xd_readline_redraw = 1]
                /\ FlatPos(g) = F
                /\ drawn.xd_tty_win_width = w
                /\ drawn.xd_tty_cursor_row = (at \div w) + 1
                /\ drawn.xd_tty_cursor_col = (at % w) + 1
                /\ drawn.xd_tty_chars_count
                       = xd_readline_prompt_length + xd_input_length

\* C19: the window, three columns wide at the start, is two columns wide in
\* the program's model, and the redraw after the resize has put the cursor in
\* the third row, behind the prompt and two bytes of the line.
C19_Witness ==
    /\ pc = "read"
    /\ xd_tty_win_width = 2
    /\ RowsBlanked([out |-> out]) >= 2
    /\ xd_readline_prompt_length = 2
    /\ xd_input_cursor = 2
    /\ xd_tty_cursor_row = 3
    /\ xd_tty_cursor_col = 1

\* The read that a failed growth of the input buffer has ended, in a state:
\* the loop was left at L = C - 1 with the result still the input buffer, and
\* once xd_readline has returned the result is that buffer, without an LF in
\* it, and the terminal has the attributes it had at entry.
AbandonedRead ==
    /\ pc = "end" =>
         /\ cause = "alloc_failed"
         /\ xd_input_length = xd_input_capacity - 1
         /\ xd_readline_finished = 0
         /\ xd_readline_return = "buffer"
    /\ (pc = "idle" /\ cause = "alloc_failed") =>
         /\ result = "buffer"
         /\ xd_input_length = xd_input_capacity - 1
         /\ \A i \in 0 .. xd_input_length - 1 : xd_input_buffer[i] # XD_ASCII_LF
         /\ xd_input_buffer[xd_input_length] = XD_ASCII_NUL
         /\ tty_attributes = entry_attributes

\* The same read, in its steps: the failed growth and the return change
\* neither B, L, C nor P, and the call that follows starts a read with
\* P = L = 0 in the same buffer, which the loop can read a byte into.
AbandonedReadStep ==
    /\ (pc = "loop" /\ pc' = "end") =>
         /\ xd_input_length = xd_input_capacity - 1
         /\ UNCHANGED <<xd_input_buffer, xd_input_length, xd_input_capacity,
                        xd_input_cursor, xd_readline_return>>
    /\ (pc = "end" /\ pc' = "idle") =>
         /\ result' = "buffer"
         /\ tty_attributes' = entry_attributes
         /\ UNCHANGED <<xd_input_buffer, xd_input_length, xd_input_capacity,
                        xd_input_cursor>>
    /\ (pc = "idle" /\ cause = "alloc_failed" /\ pc' = "loop") =>
         /\ xd_input_cursor' = 0
         /\ xd_input_length' = 0
         /\ xd_input_buffer'[0] = XD_ASCII_NUL
         /\ xd_input_capacity' = xd_input_capacity
         /\ xd_input_length' < xd_input_capacity' - 1
         /\ xd_readline_finished' = 0
         /\ xd_readline_return' = "buffer"
         /\ tty_attributes' = RawAttributes(entry_attributes')

\* C20.  When the growth of the input buffer fails at L = C - 1 the read is
\* abandoned: B, L and C are as they were, no LF is appended, xd_readline
\* returns the input buffer with the terminal's attributes restored, and the
\* next call of xd_readline starts a read with P = L = 0.  The statement as
\* claimed: it holds of the reads that load no history entry, and fails
\* where a history load has moved the input buffer before the growth fails,
\* the result then being the address of the released block (see
\* xd_input_buffer_load_from_history).
C20_FailedGrowthAbandonsTheRead ==
    []AbandonedRead /\ [][AbandonedReadStep]_vars

\* The editor on one terminal: the caller sets the prompt and adds "a" to
\* the history, the window is resized, and the reads are given MaxKeys keys
\* in all: letters and spaces, keys that move, remove and clear, the word
\* keys, Up and Down; every allocation succeeds in place.
EditBytes == {97, 32, XD_ASCII_STX, XD_ASCII_BS, XD_ASCII_NAK, XD_ASCII_FF,
              XD_ASCII_ESC}
EditTails == {UpTail, DownTail, <<102>>, <<98>>}

NextEdit ==
    \/ delivered = 0 /\ \E p \in Prompts : SetPrompt(p)
    \/ delivered = 0 /\ \E s \in KeysArgs : history_add(Str(s), TRUE)
    \/ \E w \in Widths : xd_sigwinch_handler(w)
    \/ xd_readline_enter("ok")
    \/ \E ioctl_ok \in BOOLEAN : xd_readline_loop(ioctl_ok, "inplace")
    \/ /\ delivered < MaxKeys
       /\ delivered' = delivered + 1
       /\ \E chr \in EditBytes :
             \E tail \in (IF chr = XD_ASCII_ESC THEN EditTails ELSE {<<>>}) :
               xd_readline_read(chr, tail, NoAlloc)
    \/ xd_readline_leave

SpecEdit == InitOne /\ [][NextEdit]_vars

\* C21.  Whenever the main loop is about to read a byte, after it has
\* reconciled a resize and redrawn what was pending, the count of the
\* characters rendered is the prompt's length plus the buffer's length, and
\* the flat position of the cursor is the prompt's length plus the logical
\* cursor.
C21_RenderMatchesBuffer ==
    pc = "read" =>
        /\ xd_tty_chars_count = xd_readline_prompt_length + xd_input_length
        /\ FlatPos(G) = xd_readline_prompt_length + xd_input_cursor

\* A read on a window narrowed to two columns, with a prompt, after a line of
\* the history was loaded and edited, the cursor inside the line.
C21_Witness ==
    /\ pc = "read"
    /\ xd_readline_prompt_length > 0
    /\ xd_tty_win_width = 2
    /\ xd_history_nav_idx # XD_HISTORY_MAX
    /\ xd_input_length >= 2
    /\ xd_input_cursor \in 1 .. xd_input_length - 1
    /\ xd_tty_chars_count = xd_readline_prompt_length + xd_input_length
    /\ FlatPos(G) = xd_readline_prompt_length + xd_input_cursor

\* The keys that navigate, and the step of a read that dispatches a key.
NavKeys == {"xd_input_handle_up_arrow", "xd_input_handle_down_arrow"}
KeyStep == pc = "read" /\ pc' = "loop"

\* What a save of the input buffer leaves in an entry of capacity c.
SavedLine(c) ==
    [str |-> Bytes(xd_input_buffer, xd_input_length),
     capacity |-> IF xd_input_length > c - 1
                  THEN RoundUpLineMax(xd_input_length + 1) ELSE c,
     length |-> xd_input_length]

\* C22.  A key of a read changes no slot of the history but the one nav
\* designates, and neither start, end nor len.  Only an Up or a Down that
\* moves nav writes that slot, the scratch slot or a committed entry alike:
\* it saves the input buffer into it, or leaves it as it was when the slot
\* could not be grown.
C22_NavigationSavesIntoNavSlot ==
    [][KeyStep =>
        /\ UNCHANGED ring_vars
        /\ \A i \in 0 .. XD_HISTORY_MAX :
              i # xd_history_nav_idx => xd_history'[i] = xd_history[i]
        /\ (key' \notin NavKeys \/ xd_history_nav_idx' = xd_history_nav_idx)
              => xd_history' = xd_history
        /\ LET slot == xd_history[xd_history_nav_idx]
           IN  /\ xd_history'[xd_history_nav_idx]
                      \in {slot, SavedLine(slot.capacity)}
               /\ ( /\ key' \in NavKeys
                    /\ xd_history_nav_idx' # xd_history_nav_idx
                    /\ "save" \notin alloc_failed' )
                     => xd_history'[xd_history_nav_idx]
                            = SavedLine(slot.capacity)]_vars

\* C22: a Down has left a committed entry that held "a" with the line "aa",
\* the recalled line with a letter typed after it, saved over it.
C22_Witness ==
    /\ pc = "loop"
    /\ key = "xd_input_handle_down_arrow"
    /\ xd_history_nav_idx = XD_HISTORY_MAX
    /\ xd_history_length = 1
    /\ added = <<(<<97>>)>>
    /\ xd_history[xd_history_end_idx].str = <<97, 97>>
    /\ xd_history[xd_history_end_idx].length = 2

\* C22 as claimed: a key of a read changes neither the bytes nor the length
\* of a committed entry.
C22_ReadsKeepCommittedEntries ==
    [][KeyStep =>
        \A i \in 0 .. XD_HISTORY_MAX - 1 :
            /\ xd_history'[i].str = xd_history[i].str
            /\ xd_history'[i].length = xd_history[i].length]_vars

\* Editing one line.  The state is drawn at a read() of the main loop: a
\* line of no more than LineLen letters and spaces in an input buffer that
\* has been doubled twice, the cursor anywhere in it, with or without the
\* prompt "> ", drawn on a window of either width.  One key follows, out of
\* every byte and every sequence the editor binds, on an empty history.
LineLen == 4
LineCap == 4 * LineMax
Lines == UNION {[1 .. n -> Printables] : n \in 0 .. LineLen}

InitLine ==
    /\ \E s \in Lines, P \in 0 .. LineLen, p \in Prompts, w \in Widths :
          /\ P <= Len(s)
          /\ xd_input_buffer =
                 [i \in 0 .. LineCap - 1 |->
                     IF i < Len(s) THEN s[i + 1]
                     ELSE IF i = Len(s) THEN XD_ASCII_NUL ELSE Undef]
          /\ xd_input_length = Len(s)
          /\ xd_input_cursor = P
          /\ xd_readline_prompt = p
          /\ xd_readline_prompt_length = strlen(p.str)
          /\ tty_columns = w
          /\ xd_tty_win_width = w
          /\ xd_tty_chars_count = strlen(p.str) + Len(s)
          /\ xd_tty_cursor_row = ((strlen(p.str) + P) \div w) + 1
          /\ xd_tty_cursor_col = ((strlen(p.str) + P) % w) + 1
    /\ xd_input_capacity = LineCap
    /\ xd_tty_win_resized = 0
    /\ xd_readline_redraw = 0
    /\ xd_readline_finished = 0
    /\ xd_readline_return = "buffer"
    /\ xd_history = [i \in 0 .. XD_HISTORY_MAX |-> EmptyEntry]
    /\ xd_history_nav_idx = XD_HISTORY_MAX
    /\ xd_history_start_idx = 0
    /\ xd_history_end_idx = XD_HISTORY_MAX - 1
    /\ xd_history_length = 0
    /\ pc = "read"
    /\ xd_original_tty_attributes = TtyCooked
    /\ entry_attributes = TtyCooked
    /\ tty_attributes = RawAttributes(TtyCooked)
    /\ out = <<>>
    /\ key = "none"
    /\ result = "none"
    /\ status = 0
    /\ cause = "none"
    /\ oob = FALSE
    /\ alloc_failed = {}
    /\ nav_track = NoTrack
    /\ delivered = 0
    /\ added = <<>>

NextLine ==
    \/ xd_readline_loop(TRUE, "inplace")
    \/ /\ delivered = 0
       /\ delivered' = delivered + 1
       /\ \E chr \in InputBytes :
             \E tail \in (IF chr = XD_ASCII_ESC THEN EscTails ELSE {<<>>}) :
               xd_readline_read(chr, tail, NoAlloc)
    \/ xd_readline_leave

SpecLine == InitLine /\ [][NextLine]_vars

\* The line in the input buffer, and the frame of a key: what g keeps of the
\* screen and of the history.
Line == Bytes(xd_input_buffer, xd_input_length)
LineOf(g) == Bytes(g.xd_input_buffer, g.xd_input_length)
SameScreen(g) ==
    /\ g.xd_tty_cursor_row = xd_tty_cursor_row
    /\ g.xd_tty_cursor_col = xd_tty_cursor_col
    /\ g.xd_tty_chars_count = xd_tty_chars_count
    /\ g.xd_tty_win_width = xd_tty_win_width
SameHistory(g) ==
    /\ g.xd_history = xd_history
    /\ g.xd_history_nav_idx = xd_history_nav_idx

\* C23.  A printable byte c read with the cursor at P is dispatched to
\* xd_input_handle_printable and leaves B' = B[0..P) + c + B[P..L), P' = P+1
\* and L' = L+1.  At the end of the line the byte is the first thing
\* written, N and the flat cursor position advance by one and the redraw
\* flag stays clear; inside the line nothing is written, the screen model is
\* left alone and the redraw flag is set.
C23_PrintableInsertsAtCursor ==
    pc = "read" =>
        \A c \in {32, 97, 126} :
          \A d \in {xd_input_handler(G, c, <<>>, NoAlloc)} :
            LET g == d.g
                P == xd_input_cursor
                L == xd_input_length
            IN  /\ d.key = "xd_input_handle_printable"
                /\ LineOf(g) = SubSeq(Line, 1, P) \o <<c>> \o SubSeq(Line, P + 1, L)
                /\ g.xd_input_cursor = P + 1
                /\ g.xd_input_length = L + 1
                /\ g.xd_input_capacity = xd_input_capacity
                /\ SameHistory(g)
                /\ ~g.oob /\ ~g.fault
                /\ IF P = L
                   THEN /\ Len(g.out) >= 1
                        /\ g.out[1] = Raw(<<c>>)
                        /\ g.xd_tty_chars_count = xd_tty_chars_count + 1
                        /\ FlatPos(g) = FlatPos(G) + 1
                        /\ g.xd_readline_redraw = 0
                   ELSE /\ g.out = <<>>
                        /\ SameScreen(g)
                        /\ g.xd_readline_redraw = 1

\* C23: a space was typed between two letters of a line, after a prompt.
C23_Witness ==
    /\ pc = "loop"
    /\ key = "xd_input_handle_printable"
    /\ xd_readline_prompt_length > 0
    /\ xd_readline_redraw = 1
    /\ xd_input_cursor \in 2 .. xd_input_length - 1
    /\ xd_input_buffer[xd_input_cursor - 1] = 32
    /\ xd_input_buffer[xd_input_cursor - 2] = 97
    /\ xd_input_buffer[xd_input_cursor] = 97
    /\ out = <<>>

\* The least and the greatest member of a non-empty set of integers.
Least(S) == CHOOSE x \in S : \A y \in S : x <= y
Greatest(S) == CHOOSE x \in S : \A y \in S : x >= y

\* The end of the word at or after index P of the line s, and the start of
\* the word at or before it: indices as in the buffer, s[k + 1] being B[k].
WordEndOf(s, P) ==
    LET L == Len(s)
        i == Least({k \in P .. L : k = L \/ isalnum(s[k + 1])})
    IN  Least({k \in i .. L : k = L \/ ~isalnum(s[k + 1])})
WordStartOf(s, P) ==
    LET i == Greatest({k \in 0 .. P : k = 0 \/ isalnum(s[k])})
    IN  Greatest({k \in 0 .. i : k = 0 \/ ~isalnum(s[k])})

\* The keys that move the cursor: the byte read, what follows an ESC, the
\* handler bound and where the key takes the cursor.
MotionKeys ==
    LET P == xd_input_cursor
        L == xd_input_length
        left == IF P = 0 THEN 0 ELSE P - 1
        right == IF P = L THEN L ELSE P + 1
        wend == WordEndOf(Line, P)
        wstart == WordStartOf(Line, P)
        K(chr, tail, handler, to) ==
            [chr |-> chr, tail |-> tail, handler |-> handler, to |-> to]
    IN  { K(XD_ASCII_SOH, <<>>, "xd_input_handle_ctrl_a", 0),
          K(XD_ASCII_ESC, <<91, 72>>, "xd_input_handle_home", 0),
          K(XD_ASCII_ENQ, <<>>, "xd_input_handle_ctrl_e", L),
          K(XD_ASCII_ESC, <<91, 70>>, "xd_input_handle_end", L),
          K(XD_ASCII_STX, <<>>, "xd_input_handle_ctrl_b", left),
          K(XD_ASCII_ESC, <<91, 68>>, "xd_input_handle_left_arrow", left),
          K(XD_ASCII_ACK, <<>>, "xd_input_handle_ctrl_f", right),
          K(XD_ASCII_ESC, <<91, 67>>, "xd_input_handle_right_arrow", right),
          K(XD_ASCII_ESC, <<102>>, "xd_input_handle_alt_f", wend),
          K(XD_ASCII_ESC, <<91, 49, 59, 53, 67>>,
            "xd_input_handle_ctrl_right_arrow", wend),
          K(XD_ASCII_ESC, <<98>>, "xd_input_handle_alt_b", wstart),
          K(XD_ASCII_ESC, <<91, 49, 59, 53, 68>>,
            "xd_input_handle_ctrl_left_arrow", wstart) }

\* C24.  A key that moves the cursor changes no byte of the buffer, neither
\* L nor the capacity, neither N nor the width, neither the redraw flag nor
\* the history.  It takes P to 0, L, P-1, P+1, the word end or the word
\* start (Left at 0 and Right at L leave P), and the flat position of the
\* cursor on the screen moves by as much as P.
C24_MotionMovesOnlyTheCursor ==
    pc = "read" =>
        \A k \in MotionKeys :
          \A d \in {xd_input_handler(G, k.chr, k.tail, NoAlloc)} :
            LET g == d.g
            IN  /\ d.key = k.handler
                /\ g.xd_input_cursor = k.to
                /\ g.xd_input_buffer = xd_input_buffer
                /\ g.xd_input_length = xd_input_length
                /\ g.xd_input_capacity = xd_input_capacity
                /\ g.xd_tty_chars_count = xd_tty_chars_count
                /\ g.xd_tty_win_width = xd_tty_win_width
                /\ g.xd_readline_redraw = xd_readline_redraw
                /\ g.xd_readline_finished = xd_readline_finished
                /\ SameHistory(g)
                /\ ~g.oob /\ ~g.fault
                /\ FlatPos(g) - g.xd_input_cursor = FlatPos(G) - xd_input_cursor

\* C24: Ctrl+Left has taken the cursor from the end of the line "a aa" to
\* the start of its second word, one row up on the screen.
C24_Witness ==
    /\ pc = "loop"
    /\ key = "xd_input_handle_ctrl_left_arrow"
    /\ xd_readline_prompt_length = 2
    /\ Line = <<97, 32, 97, 97>>
    /\ xd_input_cursor = 2
    /\ xd_tty_cursor_row = 2
    /\ xd_tty_cursor_col = 2
    /\ xd_readline_redraw = 0

\* The keys that remove: the byte read, what follows an ESC, the handler
\* bound, whether there is something for the key to remove, and the line and
\* the cursor it leaves then.
RemovalKeys ==
    LET P == xd_input_cursor
        L == xd_input_length
        before == SubSeq(Line, 1, P)
        after == SubSeq(Line, P + 1, L)
        backspace == SubSeq(Line, 1, P - 1) \o after
        delete == before \o SubSeq(Line, P + 2, L)
        K(chr, tail, handler, removes, line, to) ==
            [chr |-> chr, tail |-> tail, handler |-> handler,
             removes |-> removes, line |-> line, to |-> to]
    IN  { K(XD_ASCII_BS, <<>>, "xd_input_handle_ctrl_h", P > 0, backspace, P - 1),
          K(XD_ASCII_DEL, <<>>, "xd_input_handle_backspace", P > 0, backspace, P - 1),
          K(XD_ASCII_ESC, <<91, 51, 126>>, "xd_input_handle_delete", P < L, delete, P),
          K(XD_ASCII_EOT, <<>>, "xd_input_handle_ctrl_d", P < L, delete, P),
          K(XD_ASCII_VT, <<>>, "xd_input_handle_ctrl_k", P < L, before, P),
          K(XD_ASCII_NAK, <<>>, "xd_input_handle_ctrl_u", P > 0, after, 0) }

\* C25.  Backspace leaves B[0..P-1) + B[P..L) and P-1, Delete leaves
\* B[0..P) + B[P+1..L) and P, Ctrl+K leaves B[0..P) and P, Ctrl+U leaves
\* B[P..L) and 0; each sets the redraw flag, writes nothing and leaves the
\* screen model and the history alone.  With nothing to remove the key
\* changes neither the line, the cursor nor the redraw flag.  Ctrl+A and
\* then Ctrl+K leave a line that was not empty with L = 0 and P = 0.
C25_RemovalsKeepTheRest ==
    pc = "read" =>
        /\ \A k \in RemovalKeys :
              (k.chr = XD_ASCII_EOT => xd_input_length > 0) =>
              \A d \in {xd_input_handler(G, k.chr, k.tail, NoAlloc)} :
                LET g == d.g
                IN  /\ d.key = k.handler
                    /\ g.xd_input_capacity = xd_input_capacity
                    /\ SameScreen(g)
                    /\ SameHistory(g)
                    /\ g.xd_readline_finished = 0
                    /\ ~g.oob /\ ~g.fault
                    /\ IF k.removes
                       THEN /\ LineOf(g) = k.line
                            /\ g.xd_input_cursor = k.to
                            /\ g.xd_readline_redraw = 1
                            /\ g.out = <<>>
                       ELSE /\ LineOf(g) = Line
                            /\ g.xd_input_cursor = xd_input_cursor
                            /\ g.xd_readline_redraw = xd_readline_redraw
        /\ xd_input_length > 0 =>
              \A home \in {xd_input_handler(G, XD_ASCII_SOH, <<>>, NoAlloc).g} :
              \A g \in {xd_input_handler(home, XD_ASCII_VT, <<>>, NoAlloc).g} :
                  /\ g.xd_input_length = 0
                  /\ g.xd_input_cursor = 0
                  /\ g.xd_readline_redraw = 1

\* C25: Ctrl+U has removed the first two bytes of the line " aa " and kept
\* the last two, the screen still showing the four.
C25_Witness ==
    /\ pc = "loop"
    /\ key = "xd_input_handle_ctrl_u"
    /\ Line = <<97, 32>>
    /\ xd_input_cursor = 0
    /\ xd_readline_redraw = 1
    /\ xd_tty_chars_count = xd_readline_prompt_length + 4
    /\ FlatPos(G) = xd_readline_prompt_length + 2
    /\ out = <<>>

\* C26.  The word end is the index reached from P by skipping rightwards
\* the bytes that are not alphanumeric and then those that are, the word
\* start its mirror image leftwards over B[i-1].  Alt+F with P < L takes P
\* to the word end, right of P and no further than L; Alt+B with P > 0 takes
\* P to the word start, left of P and no further than 0.  Alt+D with P < L
\* removes B[P .. word end), one byte at least, and leaves P; Alt+Backspace
\* with P > 0 removes B[word start .. P), one byte at least, and leaves P at
\* the word start.
C26_WordKeysFollowWordBoundaries ==
    pc = "read" =>
        LET P == xd_input_cursor
            L == xd_input_length
            wend == WordEndOf(Line, P)
            wstart == WordStartOf(Line, P)
            Key(tail) == xd_input_handler(G, XD_ASCII_ESC, tail, NoAlloc)
        IN  /\ xd_input_buffer_get_current_word_end(G) = wend
            /\ xd_input_buffer_get_current_word_start(G) = wstart
            /\ P < L =>
                  /\ wend > P /\ wend <= L
                  /\ \A tail \in {<<102>>, <<91, 49, 59, 53, 67>>} :
                      \A g \in {Key(tail).g} :
                        /\ g.xd_input_cursor = wend
                        /\ LineOf(g) = Line
                  /\ \A tail \in {<<100>>, <<91, 51, 59, 53, 126>>} :
                      \A g \in {Key(tail).g} :
                            /\ LineOf(g) = SubSeq(Line, 1, P) \o SubSeq(Line, wend + 1, L)
                            /\ g.xd_input_length = L - (wend - P)
                            /\ g.xd_input_length < L
                            /\ g.xd_input_cursor = P
                            /\ g.xd_readline_redraw = 1
                            /\ ~g.oob
            /\ P > 0 =>
                  /\ wstart < P /\ wstart >= 0
                  /\ \A tail \in {<<98>>, <<91, 49, 59, 53, 68>>} :
                      \A g \in {Key(tail).g} :
                        /\ g.xd_input_cursor = wstart
                        /\ LineOf(g) = Line
                  /\ \A g \in {Key(<<127>>).g} :
                         /\ LineOf(g) = SubSeq(Line, 1, wstart) \o SubSeq(Line, P + 1, L)
                         /\ g.xd_input_length = L - (P - wstart)
                         /\ g.xd_input_length < L
                         /\ g.xd_input_cursor = wstart
                         /\ g.xd_readline_redraw = 1
                         /\ ~g.oob

\* C26: Alt+Backspace at the end of a line of four bytes has removed its
\* last word and left "a " with the cursor after the space, the screen still
\* showing the four bytes.
C26_Witness ==
    /\ pc = "loop"
    /\ key = "xd_input_handle_alt_backspace"
    /\ Line = <<97, 32>>
    /\ xd_input_cursor = 2
    /\ xd_readline_redraw = 1
    /\ xd_tty_chars_count = xd_readline_prompt_length + 4
    /\ FlatPos(G) = xd_readline_prompt_length + 4

\* Resizes: reads with the keys 'a', Ctrl+B and Enter on a window that is
\* resized at any moment, also between the width query of a round of the main
\* loop and its clearing of the flag; every call of the terminal succeeds.
ResizeBytes == {97, XD_ASCII_STX, XD_ASCII_LF}

NextResize ==
    \/ \E w \in Widths : xd_sigwinch_handler(w)
    \/ xd_readline_enter("ok")
    \/ xd_tty_win_resized = 0 /\ xd_readline_loop(TRUE, "inplace")
    \/ xd_readline_resize_query(TRUE)
    \/ xd_readline_resize_clear("inplace")
    \/ ReadStep(ResizeBytes, {<<>>}) /\ UNCHANGED delivered
    \/ xd_readline_leave

SpecResize == InitOne /\ [][NextResize]_vars

\* C27.  No resize notification is lost: while a read is at the top of its
\* loop or at its read(), a window width that differs from the width the
\* editor holds has its flag set, so that the round of the loop that comes
\* reconciles the two.  The statement as claimed: it fails where SIGWINCH
\* is delivered between the width query and the clearing of the flag.
C27_NoResizeIsLost ==
    (pc \in {"loop", "read"} /\ xd_tty_win_width # tty_columns)
        => xd_tty_win_resized = 1

\* The ring between and during reads: the caller's adds, which may fail, and
\* clears, and reads with the keys Up, Down and Enter, MaxKeys of them in
\* all; every allocation of a read succeeds in place.
RingArgs == {<<97>>, [i \in 1 .. LineMax |-> 97]}
RingBytes == {XD_ASCII_LF, XD_ASCII_ESC}

NextRing ==
    \/ \E s \in RingArgs, alloc_ok \in BOOLEAN : history_add(Str(s), alloc_ok)
    \/ history_add(NullPtr, TRUE)
    \/ history_clear
    \/ xd_readline_enter("ok")
    \/ xd_readline_loop(TRUE, "inplace")
    \/ /\ delivered < MaxKeys
       /\ delivered' = delivered + 1
       /\ \E chr \in RingBytes :
             \E tail \in (IF chr = XD_ASCII_ESC THEN NavTails ELSE {<<>>}) :
               xd_readline_read(chr, tail, NoAlloc)
    \/ xd_readline_leave

SpecRing == InitOne /\ [][NextRing]_vars

\* C28.  After any sequence of adds, clears and reads the ring is well
\* formed: len is in 0 .. H, start and end are in 0 .. H-1, end is
\* (start + len - 1) mod H, which with len = 0 is H-1 with start = 0, and
\* start is 0 as long as the ring has not been full since the last clear.
C28_RingWellFormed ==
    /\ xd_history_length \in 0 .. XD_HISTORY_MAX
    /\ xd_history_start_idx \in 0 .. XD_HISTORY_MAX - 1
    /\ xd_history_end_idx \in 0 .. XD_HISTORY_MAX - 1
    /\ xd_history_end_idx =
           (xd_history_start_idx + xd_history_length - 1 + XD_HISTORY_MAX)
               % XD_HISTORY_MAX
    /\ xd_history_length = 0 =>
           xd_history_start_idx = 0 /\ xd_history_end_idx = XD_HISTORY_MAX - 1
    /\ Len(added) <= XD_HISTORY_MAX =>
           xd_history_start_idx = 0 /\ xd_history_length = Len(added)

\* C28: an add has made a full ring wrap, after a read in which Up has left
\* nav on a committed entry.
C28_Witness ==
    /\ key = "history_add"
    /\ status = 0
    /\ Len(added) > XD_HISTORY_MAX
    /\ xd_history_length = XD_HISTORY_MAX
    /\ xd_history_start_idx # 0
    /\ xd_history_end_idx = xd_history_start_idx - 1
    /\ xd_history_nav_idx # XD_HISTORY_MAX
    /\ delivered > 0

\* Whether slot i is one of the len slots start, start+1, ..., end modulo H.
Occupied(i) ==
    \E k \in 0 .. xd_history_length - 1 :
        i = (xd_history_start_idx + k) % XD_HISTORY_MAX
NavValid(nav) == nav = XD_HISTORY_MAX \/ Occupied(nav)

\* C29.  nav is H when a read begins.  In every state of a read nav is H or
\* the index of an occupied slot, and whatever the allocator answers, an Up
\* or a Down leaves it so.
NavValidInRead ==
    /\ InRead => NavValid(xd_history_nav_idx)
    /\ pc = "read" =>
          \A a \in AllocOutcomes :
              \A nav \in {xd_input_handle_up_arrow(G, a).xd_history_nav_idx,
                          xd_input_handle_down_arrow(G, a).xd_history_nav_idx} :
                  NavValid(nav)
NavResetAtEntry ==
    (pc = "idle" /\ pc' = "loop") => xd_history_nav_idx' = XD_HISTORY_MAX
C29_NavDesignatesAnOccupiedSlot ==
    []NavValidInRead /\ [][NavResetAtEntry]_vars

\* C29: on a ring that has wrapped, the second Up of a read has taken nav
\* from slot 0 to slot H-1.
C29_Witness ==
    /\ pc = "loop"
    /\ key = "xd_input_handle_up_arrow"
    /\ nav_track.ups = 2
    /\ xd_history_start_idx = 1
    /\ xd_history_end_idx = 0
    /\ xd_history_nav_idx = XD_HISTORY_MAX - 1

\* Streams that go on after the decoder has stopped: an unbound byte and
\* then the bytes of a binding, and '[' without end.
EndlessTail == [i \in 1 .. XD_SMALL_BUFFER_SIZE + 8 |-> 91]
RunOnTails == {<<120>> \o t : t \in BindingTails} \cup {EndlessTail}

\* The longest binding has six bytes, and no binding is a strict prefix of
\* another.
BindingsArePrefixFree ==
    /\ \A i \in 1 .. xd_esc_seq_bindings_length :
          /\ Len(xd_esc_seq_bindings[i].sequence) <= 6
          /\ ~StrictPrefix(xd_esc_seq_bindings[i].sequence)
    /\ \E i \in 1 .. xd_esc_seq_bindings_length :
          Len(xd_esc_seq_bindings[i].sequence) = 6

\* C30.  The decoder returns for every stream of bytes after ESC.  It
\* consumes the first bytes of the stream, five at most, so that with ESC
\* and the terminating NUL it stays inside its staging buffer; it invokes
\* the action of one binding, once, or none and then changes nothing; when
\* the stream stops inside a binding it returns with no action.
C30_DecoderReturns ==
    /\ BindingsArePrefixFree
    /\ pc = "read" =>
         \A tail \in DecodeTails \cup RunOnTails :
           \A d \in {xd_input_handle_escape_sequence(G, tail, NoAlloc)} :
             LET consumed == Len(d.staged) - 1
             IN  /\ consumed \in 0 .. 5
                 /\ consumed <= Len(tail)
                 /\ d.staged = <<XD_ASCII_ESC>> \o SubSeq(tail, 1, consumed)
                 /\ Len(d.staged) + 1 <= XD_SMALL_BUFFER_SIZE
                 /\ IF d.key = "none" THEN d.g = G
                    ELSE /\ Cardinality(BoundTo(d.staged)) = 1
                         /\ \A i \in BoundTo(d.staged) :
                               /\ d.key = xd_esc_seq_bindings[i].handler
                               /\ d.g = CallHandler(d.key, G, NoAlloc)
                 /\ tail \in DecodePrefixes =>
                       /\ d.key = "none"
                       /\ consumed = Len(tail)

\* C30: the six bytes of Ctrl+Left have been decoded and its action has moved
\* the cursor to the start of the line.
C30_Witness ==
    /\ pc = "loop"
    /\ key = "xd_input_handle_ctrl_left_arrow"
    /\ xd_input_cursor = 0
    /\ xd_input_length > 1
    /\ out # <<>>
    /\ out # xd_tty_bell(G).out

\* Bytes bound to nothing: reads with 'a', Ctrl+B and Enter, and with the
\* control bytes NUL, TAB and CR, MaxKeys keys in all.
UnboundBytes == {97, XD_ASCII_STX, XD_ASCII_LF, XD_ASCII_NUL, 9, 13}

NextUnbound ==
    \/ \E p \in Prompts : SetPrompt(p)
    \/ xd_readline_enter("ok")
    \/ xd_readline_loop(TRUE, "inplace")
    \/ BoundedReadStep(UnboundBytes, {<<>>})
    \/ xd_readline_leave

SpecUnbound == InitOne /\ [][NextUnbound]_vars

\* The control bytes the dispatch has a case for, and the others.
BoundControls ==
    {XD_ASCII_SOH, XD_ASCII_STX, XD_ASCII_EOT, XD_ASCII_ENQ, XD_ASCII_ACK,
     XD_ASCII_BEL, XD_ASCII_BS, XD_ASCII_LF, XD_ASCII_VT, XD_ASCII_FF,
     XD_ASCII_NAK, XD_ASCII_ESC, XD_ASCII_DEL}
UnboundControls == {c \in 0 .. 127 : iscntrl(c)} \ BoundControls

\* C31.  A control byte the dispatch has no case for runs no handler, writes
\* nothing and changes none of the globals; the step that consumes it leaves
\* the buffer, the cursor, the screen model, the flags, nav and the history
\* as they were.
UnboundByteDoesNothing ==
    pc = "read" =>
        \A c \in UnboundControls :
            \A d \in {xd_input_handler(G, c, <<>>, NoAlloc)} :
                d.key = "none" /\ d.g = G
UnboundByteStep ==
    (ByteDispatched /\ key' = "none") =>
        /\ out' = <<>>
        /\ UNCHANGED <<handler_vars, ring_vars, xd_tty_win_resized, cause>>
C31_UnboundControlBytesDoNothing ==
    []UnboundByteDoesNothing /\ [][UnboundByteStep]_vars

\* C31: a byte bound to nothing has been consumed with the cursor inside a
\* line, after a prompt.
C31_Witness ==
    /\ pc = "loop"
    /\ key = "none"
    /\ out = <<>>
    /\ delivered = 4
    /\ xd_readline_finished = 0
    /\ xd_readline_redraw = 0
    /\ xd_readline_prompt_length > 0
    /\ xd_input_length = 2
    /\ xd_input_cursor = 1

\* ---------------------------------------------------------------------------
\* Writes that fail and writes that are short.  A prompt is set, a line is
\* read, and any write of a round of the loop or of a handler may fail or
\* be short.
WriteBytes == {97, XD_ASCII_STX, XD_ASCII_LF}

NextWrite ==
    \/ \E p \in Prompts : SetPrompt(p)
    \/ xd_readline_enter("ok")
    \/ xd_readline_loop(TRUE, "inplace")
    \/ xd_readline_loop_short_write
    \/ BoundedReadStep(WriteBytes, {<<>>})
    \/ \E chr \in WriteBytes : xd_readline_read_short_write(chr)
    \/ xd_readline_leave

SpecWrite == InitOne /\ [][NextWrite]_vars

\* The last step handed the terminal fewer bytes than one of its writes asked
\* for.
ShortWritten == \E i \in 1 .. Len(out) : out[i].op = "short"

\* C32: a terminal write that fails or is short, of raw bytes or of a
\* formatted control sequence, restores the terminal attributes and aborts the
\* process: after a short write the process has exited with the attributes
\* of the entry, and the read does not go on with the screen model advanced
\* past the bytes that were not written.
C32_ShortWritesAbort ==
    ShortWritten => pc = "exited" /\ tty_attributes = entry_attributes

\* ---------------------------------------------------------------------------
\* The ways out of xd_readline.  A prompt is set, a line is read on a window of
\* either width, and the read ends by Enter, by EOT on an empty buffer, by the
\* end of the input or by a growth of the buffer that fails; the final LF
\* and the restore are two steps.
LeaveBytes == {97, XD_ASCII_STX, XD_ASCII_LF, XD_ASCII_EOT}

NextLeave ==
    \/ \E p \in Prompts : SetPrompt(p)
    \/ \E w \in Widths : xd_sigwinch_handler(w)
    \/ xd_readline_enter("ok")
    \/ \E how \in {"inplace", "fail"} : xd_readline_loop(TRUE, how)
    \/ BoundedReadStep(LeaveBytes, {<<>>})
    \/ xd_readline_eof
    \/ xd_readline_final_lf
    \/ xd_readline_restore_return

SpecLeave == InitOne /\ [][NextLeave]_vars

\* The final LF, as the terminal receives it.
FinalLF == <<Raw(<<XD_ASCII_LF>>)>>

\* The loop is left for one of the four reasons, and after Enter the cursor
\* is at the end of the rendered text, the stored LF not counted.
LeftLoop ==
    /\ (pc = "loop" /\ xd_readline_finished # 0) => cause \in {"enter", "eot", "eof"}
    /\ pc = "end" => cause = "alloc_failed"
    /\ pc = "restore" => cause \in {"enter", "eot", "eof", "alloc_failed"}
    /\ (pc \in {"loop", "restore"} /\ cause = "enter") =>
         /\ xd_input_buffer[xd_input_length - 1] = XD_ASCII_LF
         /\ FlatPos(G) = xd_readline_prompt_length + xd_input_length - 1

\* The step after the loop writes the LF exactly when the cursor column is
\* not 1, the column and the attributes of the read unchanged.
FinalLFStep ==
    (pc \in {"loop", "end"} /\ pc' = "restore") =>
        /\ \/ pc = "loop" /\ xd_readline_finished # 0
           \/ pc = "end"
        /\ out' = IF xd_tty_cursor_col # 1 THEN FinalLF ELSE <<>>
        /\ xd_tty_cursor_col' = xd_tty_cursor_col
        /\ tty_attributes' = tty_attributes
        /\ tty_attributes = RawAttributes(entry_attributes)

\* The return comes after that step, writes nothing and restores the
\* attributes.
ReturnStep ==
    (pc # "idle" /\ pc' = "idle") =>
        /\ pc = "restore"
        /\ tty_attributes = RawAttributes(entry_attributes)
        /\ tty_attributes' = entry_attributes
        /\ out' = <<>>
        /\ result' = xd_readline_return

\* C33: on every return from xd_readline, by Enter, by EOT on an empty
\* buffer, by the end of the input or by a failed growth of the buffer, a
\* final LF is written exactly when the modelled cursor column is not 1, and
\* it is written before the terminal attributes are restored; after Enter the
\* cursor has first been moved to the end of the rendered text, at flat
\* position Lp + L with the stored LF not counted in L.
C33_FinalLFBeforeRestore ==
    []LeftLoop /\ [][FinalLFStep]_vars /\ [][ReturnStep]_vars

\* Enter with the cursor inside a line of two bytes, the LF written and the
\* attributes not yet restored.
C33_Witness ==
    /\ pc = "restore"
    /\ cause = "enter"
    /\ xd_input_length = 3
    /\ xd_input_cursor = 1
    /\ xd_tty_cursor_col # 1
    /\ out = FinalLF

====
